---- MODULE Spec2Model ----
(***************************************************************************)
(* Model of the execution core of Workload Automation                      *)
(* (wlauto/core/execution.py): the Runner's job loop, its error handlers,  *)
(* the retry queue, the signals it emits and the ExecutionContext.         *)
(*                                                                         *)
(* Python exceptions are modelled by the in-flight exception `exc`: an     *)
(* action that models a call applies every handler and every finally up to *)
(* the next call that can itself return or raise.  Device operations and   *)
(* workload hooks are the calls that may raise; each either returns ("ok") *)
(* or raises one of                                                        *)
(*   "WAError"  a WAError or TimeoutError (DeviceError and ConfigError are *)
(*              WAErrors; "DeviceError" is kept apart where the code       *)
(*              catches or raises that class by name),                     *)
(*   "DNRE"     DeviceNotRespondingError,                                  *)
(*   "KI"       KeyboardInterrupt,                                         *)
(*   "Error"    any other Exception.                                       *)
(***************************************************************************)
EXTENDS Integers, Sequences, FiniteSets, TLC

\* ---------------------------------------------------------------- bounds

\* Largest number_of_iterations of a spec.
MaxIterations == 2

\* Largest config.max_retries.
MaxRetries == 1

\* Largest number of jobs in the initial queue.
MaxJobs == 3

\* Largest number of specs in an agenda handed to init_queue.
MaxSpecs == 4

\* Largest number of jobs handed to random.shuffle.
MaxShuffled == 5

\* Largest number of add_artifact calls on one ExecutionContext.
MaxArtifacts == 2

\* ------------------------------------------------------ program constants

MAX_REBOOT_ATTEMPTS == 3

\* The workload specs of the run, in agenda order (spec ids).
SpecList == <<"A", "B">>

Specs == {SpecList[i] : i \in 1..Len(SpecList)}

None == "None"

\* IterationResult statuses; NOT_STARTED is the pre-start sentinel.
NOT_STARTED == "NOT_STARTED"
RUNNING == "RUNNING"
OK == "OK"
PARTIAL == "PARTIAL"
NONCRITICAL == "NONCRITICAL"
FAILED == "FAILED"
ABORTED == "ABORTED"
SKIPPED == "SKIPPED"

TerminalStatuses == {OK, PARTIAL, NONCRITICAL, FAILED, ABORTED, SKIPPED}

\* Artifact scopes: Artifact.RUN and Artifact.ITERATION; DEFAULT_SCOPE stands
\* for the scope of an Artifact built without one.
RUN == "RUN"
ITERATION == "ITERATION"
DEFAULT_SCOPE == "default"

\* Outcomes of a device operation or a workload hook.
CallOutcomes == {"ok", "WAError", "DNRE", "KI", "Error"}

\* Outcomes of device.check_responsive(): it returns or raises DNRE.
ProbeOutcomes == {"ok", "DNRE"}

\* Outcomes of the calls of the hard-reset recovery and of the initial
\* connect, where the code catches DeviceError by name.
RecoveryOutcomes == {"ok", "DeviceError", "WAError", "DNRE", "KI", "Error"}

\* The stages wrapped in BEFORE_/SUCCESSFUL_/AFTER_ signals.
WrappedStages == {"WORKLOAD_SETUP", "WORKLOAD_EXECUTION", "WORKLOAD_RESULT_UPDATE",
                  "WORKLOAD_TEARDOWN", "BOOT", "INITIAL_BOOT", "FLASHING",
                  "OVERALL_RESULTS_PROCESSING"}

\* The per-iteration workload hooks and the per-run ones.
IterationHooks == {"setup", "run", "update_result", "teardown"}

WorkloadHooks == IterationHooks \cup {"initialize", "finalize"}

\* The reboot_policy values, as the booleans the Runner reads.
RebootPolicies ==
    { [can_reboot |-> FALSE, perform_initial_boot |-> FALSE,
       reboot_on_each_spec |-> FALSE, reboot_on_each_iteration |-> FALSE],
      [can_reboot |-> TRUE, perform_initial_boot |-> TRUE,
       reboot_on_each_spec |-> TRUE, reboot_on_each_iteration |-> FALSE],
      [can_reboot |-> TRUE, perform_initial_boot |-> TRUE,
       reboot_on_each_spec |-> TRUE, reboot_on_each_iteration |-> TRUE] }

\* The config.retry_on_status sets of the model.
RetrySets == { {FAILED, PARTIAL}, {FAILED, ABORTED, SKIPPED} }

VARIABLES
    pc,                 \* position of Runner.run
    exc,                \* exception in flight ("none" when there is none)
    config,             \* config: max_retries, retry_on_status, reboot_policy, ...
    enabled,            \* spec.enabled, per spec
    job_queue,          \* Runner.job_queue
    completed_jobs,     \* Runner.completed_jobs
    iteration_results,  \* context.run_result.iteration_results
    context,            \* ExecutionContext: current_job, job_iteration_counts, aborted,
                        \* output_directory, iteration_artifacts, run_artifacts
    reboot_attempts,    \* loop variable of _reboot_device
    trace,              \* signals sent and hooks called since the last job or phase began
    carry,              \* what the earlier signals left open: iteration and spec bracket
    popped,             \* number of jobs popped from job_queue
    bodies,             \* how the body of each wrapped stage, and the hard reset, of the
                        \* current job ended: "ok" or "raised"
    abortedHooks,       \* workload hooks invoked while context.aborted was true
    notes               \* ordinals of the jobs whose workload.run raised KeyboardInterrupt
                        \* (interrupted), whose reboot ran out of attempts (exhausted),
                        \* and which a DeviceNotRespondingError left with no recovery
                        \* (unrecovered)

vars == <<pc, exc, config, enabled, job_queue, completed_jobs, iteration_results,
          context, reboot_attempts, trace, carry, popped, bodies, abortedHooks,
          notes>>

\* ------------------------------------------------------------- helpers

Last(s) == s[Len(s)]

RECURSIVE SumOver(_, _)
SumOver(f, S) ==
    IF S = {} THEN 0
    ELSE LET x == CHOOSE y \in S : TRUE IN f[x] + SumOver(f, S \ {x})

RECURSIVE Repeat(_, _)
Repeat(x, n) == IF n = 0 THEN <<>> ELSE <<x>> \o Repeat(x, n - 1)

RECURSIVE Flatten(_)
Flatten(ss) == IF ss = <<>> THEN <<>> ELSE Head(ss) \o Flatten(Tail(ss))

\* IterationResult(spec): a fresh result.
NewResult == [status |-> NOT_STARTED, events |-> <<>>, iteration |-> 0,
              output_directory |-> <<>>]

\* RunnerJob(spec, retry).
RunnerJob(spec, retry) ==
    [spec |-> spec, retry |-> retry, iteration |-> 0, result |-> NewResult]

\* ------------------------------------------------------ scheduler policies

\* itertools.izip_longest(*lists): round k holds the k-th element of every
\* list, the fill value (None) for a list that is too short.
IzipLongest(lists, fill) ==
    LET longest == IF lists = <<>> THEN 0
                   ELSE CHOOSE n \in {Len(lists[i]) : i \in 1..Len(lists)} :
                            \A i \in 1..Len(lists) : Len(lists[i]) <= n
    IN  [k \in 1..longest |->
            [i \in 1..Len(lists) |-> IF k <= Len(lists[i]) THEN lists[i][k] ELSE fill]]

\* [x for round in rounds for x in round if x]: the fill values are dropped.
DropNone(rounds, fill) == SelectSeq(Flatten(rounds), LAMBDA x : x # fill)

\* [[RunnerJob(s) for _ in xrange(s.number_of_iterations)] for s in specs]
SpecJobs(specs, iterations) ==
    [i \in 1..Len(specs) |-> Repeat(RunnerJob(specs[i], 0), iterations[specs[i]])]

\* BySpecRunner.init_queue
BySpecQueue(specs, iterations) == Flatten(SpecJobs(specs, iterations))

\* A by_section runner that lists the jobs spec by spec: the order of the
\* by_section queue (C16) rests on the rounds izip_longest makes.
BySectionQueueSpecBySpec(specs, iterations) == Flatten(SpecJobs(specs, iterations))

\* BySectionRunner.init_queue
BySectionQueue(specs, iterations) ==
    DropNone(IzipLongest(SpecJobs(specs, iterations), RunnerJob(None, 0)), RunnerJob(None, 0))

\* The specs an agenda can name, each with the section it belongs to.
SpecPool ==
    {[id |-> "X.A", section_id |-> "X"], [id |-> "X.B", section_id |-> "X"],
     [id |-> "X.C", section_id |-> "X"], [id |-> "Y.A", section_id |-> "Y"],
     [id |-> "Y.B", section_id |-> "Y"], [id |-> "Y.C", section_id |-> "Y"]}

PoolIds == {r.id : r \in SpecPool}

\* spec.section_id
section_id(s) == (CHOOSE r \in SpecPool : r.id = s).section_id

\* The keys of the OrderedDict `sections`: the section ids of the specs, each
\* at the place of its first spec.
RECURSIVE SectionKeys(_, _)
SectionKeys(specs, seen) ==
    IF specs = <<>> THEN <<>>
    ELSE IF section_id(Head(specs)) \in seen THEN SectionKeys(Tail(specs), seen)
    ELSE <<section_id(Head(specs))>>
             \o SectionKeys(Tail(specs), seen \cup {section_id(Head(specs))})

\* sections.values(): the specs of each section, in input order.
SectionValues(specs) ==
    LET keys == SectionKeys(specs, {}) IN
    [i \in 1..Len(keys) |-> SelectSeq(specs, LAMBDA s : section_id(s) = keys[i])]

\* A by_iteration runner that does not look at the sections: the order of the
\* specs of an agenda with several sections (C17) rests on the grouping.
ByIterationQueueUngrouped(specs, iterations) == BySectionQueue(specs, iterations)

\* ByIterationRunner.init_queue
ByIterationQueue(specs, iterations) ==
    BySectionQueue(DropNone(IzipLongest(SectionValues(specs), None), None), iterations)

\* A shuffle that draws every place of the list afresh from its elements: the
\* random queue being a permutation (C18) rests on random.shuffle moving the
\* elements without adding or losing one.
ShuffledWithRepeats(jobs) ==
    {[i \in 1..Len(jobs) |-> jobs[f[i]]] : f \in [1..Len(jobs) -> 1..Len(jobs)]}

\* random.shuffle(all_jobs): the orders the list can be left in.
Shuffled(jobs) ==
    {[i \in 1..Len(jobs) |-> jobs[p[i]]] : p \in Permutations(1..Len(jobs))}

\* RandomRunner.init_queue: the queues it can build.
RandomQueues(specs, iterations) == Shuffled(BySpecQueue(specs, iterations))

\* ------------------------------------------------------ ExecutionContext

\* Artifact(name, path, kind, scope).  A name is a tuple of its parts; a path
\* is the directory it lies in (an output directory of the run, <<"meta">>, or
\* <<>> for a relative path) and the file's name.
Artifact(name, path, kind, scope) ==
    [name |-> name, path |-> path, kind |-> kind, scope |-> scope]

\* ExecutionContext.default_run_artifacts.
default_run_artifacts ==
    <<Artifact(<<"runlog">>, [dir |-> <<>>, file |-> <<"run.log">>], "log", DEFAULT_SCOPE)>>

\* The artifacts a workload declares (workload.artifacts): one data file per
\* spec here.
WorkloadArtifacts(spec) ==
    <<Artifact(<<spec>>, [dir |-> <<>>, file |-> <<spec>>], "data", DEFAULT_SCOPE)>>

\* ExecutionContext.__init__ followed by initialize(), for a run over `specs`
\* whose agenda has a file (agenda_file) and that read config_paths
\* configuration files.
NewContext(specs, agenda_file, config_paths) ==
    [current_job |-> None,
     job_iteration_counts |-> [s \in specs |-> 0],
     aborted |-> FALSE,
     output_directory |-> <<"run">>,
     iteration_artifacts |-> None,
     run_artifacts |->
         default_run_artifacts
         \o (IF agenda_file
             THEN <<Artifact(<<"agenda">>, [dir |-> <<"meta">>, file |-> <<"agenda">>],
                             "meta", DEFAULT_SCOPE)>>
             ELSE <<>>)
         \o [i \in 1..config_paths |->
                Artifact(<<"config", i>>, [dir |-> <<"meta">>, file |-> <<"config", i>>],
                         "meta", DEFAULT_SCOPE)]]

\* ExecutionContext.current_iteration
CurrentIteration(c) ==
    IF c.current_job # None THEN c.job_iteration_counts[c.current_job] ELSE 0

\* The labels and ids specs can have, as strings of characters.
SpecLabels == {<<"w">>, <<"w", "_", "a">>}

SpecIds == {<<"a">>, <<"b">>, <<"a", "_", "b">>}

\* The ways of giving every spec a label and an id of its own.
Namings ==
    {n \in [Specs -> [label : SpecLabels, id : SpecIds]] :
        \A s, t \in Specs : n[s].id = n[t].id => s = t}

\* str(n) of a count.
RECURSIVE Str(_)
Str(n) ==
    LET digit == <<"0", "1", "2", "3", "4", "5", "6", "7", "8", "9">>[(n % 10) + 1]
    IN  IF n < 10 THEN <<digit>> ELSE Str(n \div 10) \o <<digit>>

\* next_job's outdir_name: '_'.join(map(str, [label, id, iteration])).
OutdirName(label, id, iteration) == label \o <<"_">> \o id \o <<"_">> \o Str(iteration)

\* The path of an output directory of the model under a naming of the specs:
\* the run's root, or the directory next_job named below it after a spec and
\* its iteration.
DirPath(naming, dir) ==
    IF dir = <<"run">> THEN <<"run">>
    ELSE <<"run">> \o OutdirName(naming[dir[1]].label, naming[dir[1]].id, dir[2])

\* A next_job that leaves the iteration count alone once the run is aborted:
\* the count invariant (C1) rests on next_job counting the drained jobs too.
NextJobUncountedWhenAborted(c, job) ==
    LET counts == IF c.aborted THEN c.job_iteration_counts
                  ELSE [c.job_iteration_counts EXCEPT ![job.spec] = @ + 1]
        outdir == IF ~c.aborted THEN <<job.spec, counts[job.spec]>>
                  ELSE c.output_directory
    IN  [context |-> [c EXCEPT !.current_job = job.spec,
                               !.job_iteration_counts = counts,
                               !.output_directory = outdir,
                               !.iteration_artifacts =
                                   IF ~c.aborted THEN WorkloadArtifacts(job.spec) ELSE @],
         result |-> [job.result EXCEPT !.iteration = counts[job.spec],
                                       !.output_directory = outdir]]

\* ExecutionContext.next_job(job): the context and the job's result after it.
\* The per-iteration directory is kept as the spec and the iteration it is
\* named after; DirPath gives its path.
NextJob(c, job) ==
    LET counts == [c.job_iteration_counts EXCEPT ![job.spec] = @ + 1]
        outdir == IF ~c.aborted THEN <<job.spec, counts[job.spec]>>
                  ELSE c.output_directory
    IN  [context |-> [c EXCEPT !.current_job = job.spec,
                               !.job_iteration_counts = counts,
                               !.output_directory = outdir,
                               !.iteration_artifacts =
                                   IF ~c.aborted THEN WorkloadArtifacts(job.spec) ELSE @],
         result |-> [job.result EXCEPT !.iteration = counts[job.spec],
                                       !.output_directory = outdir]]

\* An end_job that leaves context.output_directory at the job's directory:
\* the directory of a job drained after the run was aborted (C28) rests on
\* end_job going back to the run's root.
EndJobKeepingDirectory(c, status) ==
    [c EXCEPT !.aborted = (c.aborted \/ status = ABORTED),
              !.current_job = None]

\* ExecutionContext.end_job(), for a current job that ended with `status`.
EndJob(c, status) ==
    [c EXCEPT !.aborted = (c.aborted \/ status = ABORTED),
              !.current_job = None,
              !.output_directory = <<"run">>]

\* path.startswith(rootpath): the run's root is the beginning of every output
\* directory of the run, an iteration's directory of itself only.
StartsWith(path, rootpath) ==
    /\ path.dir \notin {<<>>, <<"meta">>}
    /\ (rootpath = <<"run">> \/ path.dir = rootpath)

\* _check_artifact_path(path, rootpath), where isfile is what os.path.isfile
\* answers for the joined path: the path to register, or a ValueError.
CheckArtifactPath(path, rootpath, isfile) ==
    IF StartsWith(path, rootpath) THEN [raised |-> FALSE, path |-> path]
    ELSE LET full_path == IF path.dir = <<>> THEN [path EXCEPT !.dir = rootpath] ELSE path
         IN  [raised |-> ~isfile, path |-> full_path]

\* ExecutionContext.add_run_artifact: the context after it and whether it
\* raised.
AddRunArtifact(c, name, path, kind, isfile) ==
    LET checked == CheckArtifactPath(path, <<"run">>, isfile)
    IN  IF checked.raised THEN [raised |-> TRUE, context |-> c]
        ELSE [raised |-> FALSE,
              context |-> [c EXCEPT !.run_artifacts =
                              Append(@, Artifact(name, checked.path, kind, ITERATION))]]

\* ExecutionContext.add_iteration_artifact.
AddIterationArtifact(c, name, path, kind, isfile) ==
    LET checked == CheckArtifactPath(path, c.output_directory, isfile)
    IN  IF checked.raised THEN [raised |-> TRUE, context |-> c]
        ELSE [raised |-> FALSE,
              context |-> [c EXCEPT !.iteration_artifacts =
                              Append(@, Artifact(name, checked.path, kind, RUN))]]

\* ExecutionContext.add_artifact.
AddArtifact(c, name, path, kind, isfile) ==
    IF c.current_job = None
    THEN AddRunArtifact(c, name, path, kind, isfile)
    ELSE AddIterationArtifact(c, name, path, kind, isfile)

\* ------------------------------------------------------------- signals

\* Runner._send(s): the signal goes out with the context, whose current job
\* names the spec it is about.
Send(tr, sig) == Append(tr, [sig |-> sig, spec |-> context.current_job])

\* A call of a device operation or of a workload hook, as the trace shows it.
Call(tr, name) == Append(tr, [sig |-> name, spec |-> context.current_job])

\* Runner._signal_wrap, on entry.
WrapEnter(tr, stage) == Send(tr, "BEFORE_" \o stage)

\* A wrap that reports success whatever its body did: the signal wrap
\* property (C10) rests on the success signal being skipped by an exception.
WrapExitAlwaysSuccessful(tr, stage, raised) ==
    Send(Send(tr, "SUCCESSFUL_" \o stage), "AFTER_" \o stage)

\* Runner._signal_wrap, on exit: success only when the body did not raise,
\* after always.
WrapExit(tr, stage, raised) ==
    IF raised THEN Send(tr, "AFTER_" \o stage)
    ELSE Send(Send(tr, "SUCCESSFUL_" \o stage), "AFTER_" \o stage)

\* ------------------------------------------------------- error handling

NoExc == [kind |-> "none", from |-> "none"]

\* An exception of class `kind` raised by the call `from`.  Its message names
\* the call, but for a DeviceNotRespondingError, whose message names the
\* device, and a KeyboardInterrupt, which has none.
Raise(kind, from) ==
    [kind |-> kind,
     from |-> CASE kind = "DNRE" -> "device_not_responding"
                [] kind = "KI" -> "none"
                [] OTHER -> from]

\* A handler that records the event of an error and leaves the status as it
\* was: the status of a job whose workload.run failed (C15) rests on the
\* handler marking the result.
HandleErrorsKeepingStatus(o, from, probe, res, has_job, on_error_status) ==
    LET marked == IF has_job
                  THEN [res EXCEPT !.events = Append(@, from)]
                  ELSE res
    IN  CASE o = "ok" -> [exc |-> NoExc, result |-> res]
          [] o \in {"KI", "DNRE"} -> [exc |-> Raise(o, from), result |-> res]
          [] o \in {"WAError", "DeviceError"} ->
                IF probe = "DNRE"
                THEN [exc |-> Raise("DNRE", "check_responsive"), result |-> res]
                ELSE [exc |-> NoExc, result |-> marked]
          [] OTHER -> [exc |-> NoExc, result |-> marked]

\* Runner._handle_errors around a call that ended with outcome `o`; `probe` is
\* what device.check_responsive() does when it is asked, `res` the result of
\* the Runner's current job (has_job: job_queue is not empty).  Gives the
\* exception that leaves the handler and the result after it.
HandleErrors(o, from, probe, res, has_job, on_error_status) ==
    LET marked == IF has_job
                  THEN [res EXCEPT !.status = on_error_status,
                                   !.events = Append(@, from)]
                  ELSE res
    IN  CASE o = "ok" -> [exc |-> NoExc, result |-> res]
          [] o \in {"KI", "DNRE"} -> [exc |-> Raise(o, from), result |-> res]
          [] o \in {"WAError", "DeviceError"} ->
                IF probe = "DNRE"
                THEN [exc |-> Raise("DNRE", "check_responsive"), result |-> res]
                ELSE [exc |-> NoExc, result |-> marked]
          [] OTHER -> [exc |-> NoExc, result |-> marked]

\* ------------------------------------------------------------ the Runner

\* A spec_changed that is true for every job: the reboot on each spec (C22)
\* rests on the comparison with the job completed last.
SpecChangedAlways(q, done) == TRUE

\* Runner.spec_changed, for the queue q and the completed jobs done.
SpecChanged(q, done) ==
    IF done = <<>> /\ q # <<>> THEN TRUE
    ELSE IF done # <<>> /\ q = <<>> THEN TRUE
    ELSE Head(q).spec # Last(done).spec

\* Runner.spec_will_change, for the queue q (not empty inside a job).
SpecWillChange(q) ==
    IF q = <<>> /\ Len(q) > 1 THEN TRUE
    ELSE IF q # <<>> /\ Len(q) <= 1 THEN TRUE
    ELSE q[1].spec # q[2].spec

\* The result of the job at the head of the queue, and the queue with it set.
HeadResult == Head(job_queue).result

SetHead(q, res) == [q EXCEPT ![1].result = res]

\* A retry test that allows one attempt too many: the retry bound (C2) rests
\* on the comparison of job.retry with max_retries.
ShouldRetryOnceMore(job, cfg) ==
    /\ job.result.status \in cfg.retry_on_status
    /\ ~(job.retry > cfg.max_retries)

\* _finalize_job's retry test: the job goes again.
ShouldRetry(job, cfg) ==
    /\ job.result.status \in cfg.retry_on_status
    /\ ~(job.retry >= cfg.max_retries)

\* A requeue that appends the retry job instead of putting it first: the
\* retry chain (C3) rests on the insertion at the head.
RequeueAtTail(rest, job, cfg) ==
    IF ShouldRetry(job, cfg) THEN rest \o <<RunnerJob(job.spec, job.retry + 1)>>
    ELSE rest

\* _finalize_job's queue after the pop: the retry job goes to the head.
Requeue(rest, job, cfg) ==
    IF ShouldRetry(job, cfg) THEN <<RunnerJob(job.spec, job.retry + 1)>> \o rest
    ELSE rest

\* A result once its job is finalized.  Nothing reads the event list of a
\* finished result again, so the model keeps it only while the job is queued.
Finished(res) == [res EXCEPT !.events = <<>>]

\* A _finalize_job that runs twice for a job: the single finalization of a
\* job after a handled error (C24) rests on the finally clause running once.
FinalizedTwice(q, c) ==
    LET job == [Head(q) EXCEPT !.iteration = CurrentIteration(c),
                               !.result = Finished(@)]
    IN  [iteration_results |-> Append(Append(iteration_results, job.result), job.result),
         job_queue |-> Requeue(Tail(q), job, config),
         completed_jobs |-> Append(Append(completed_jobs, job), job),
         context |-> EndJob(c, job.result.status)]

\* Runner._finalize_job for the queue q and the context c: the new values of
\* iteration_results, job_queue, completed_jobs and the context.
Finalized(q, c) ==
    LET job == [Head(q) EXCEPT !.iteration = CurrentIteration(c),
                               !.result = Finished(@)]
    IN  [iteration_results |-> Append(iteration_results, job.result),
         job_queue |-> Requeue(Tail(q), job, config),
         completed_jobs |-> Append(completed_jobs, job),
         context |-> EndJob(c, job.result.status)]

\* A run loop that takes every DeviceError for an unresponsive device: what
\* follows a reboot that ran out of attempts (C6) rests on the run loop
\* telling the two apart.
IsNotRespondingOrDeviceError(e) == e.kind \in {"DNRE", "DeviceError"}

\* isinstance(e, DeviceNotRespondingError), and what `except
\* DeviceNotRespondingError` catches.
IsNotResponding(e) == e.kind = "DNRE"

\* A run loop that swallows the interrupt and goes on with the next job: the
\* silence of the hooks after an abort (C4) rests on the drain.
AfterJobIgnoringInterrupt(e) ==
    CASE e.kind \in {"none", "KI"} -> "loop"
      [] IsNotResponding(e) -> "drain_skip"
      [] OTHER -> "crashed"

\* Where Runner.run goes after the finally of the job loop, with the
\* exception e in flight: the next job, one of the two drains, or out of run().
AfterJob(e) ==
    CASE e.kind = "none" -> "loop"
      [] e.kind = "KI" -> "drain_abort"
      [] IsNotResponding(e) -> "drain_skip"
      [] OTHER -> "crashed"

\* An end of _run_job that announces the end of an iteration only along with
\* the end of its spec: the normal job trace (C11) rests on ITERATION_END
\* being sent for every job that completes.
JobTailWithoutIterationEnd(tr, e, spec_enabled) ==
    CASE e.kind = "KI" -> Send(Send(tr, "ITERATION_END"), "WORKLOAD_SPEC_END")
      [] e.kind = "none" ->
            IF SpecWillChange(job_queue) \/ ~spec_enabled
            THEN Send(Send(tr, "ITERATION_END"), "WORKLOAD_SPEC_END")
            ELSE tr
      [] OTHER -> tr

\* The end of _run_job's try statement (except KeyboardInterrupt / else) with
\* the exception e in flight; spec_enabled is spec.enabled at that point.
JobTail(tr, e, spec_enabled) ==
    CASE e.kind = "KI" -> Send(Send(tr, "ITERATION_END"), "WORKLOAD_SPEC_END")
      [] e.kind = "none" ->
            IF SpecWillChange(job_queue) \/ ~spec_enabled
            THEN Send(Send(tr, "ITERATION_END"), "WORKLOAD_SPEC_END")
            ELSE Send(tr, "ITERATION_END")
      [] OTHER -> tr

\* ------------------------------------------------- signal bookkeeping

\* How the body of each wrapped stage of the current job ended, and how the
\* hard reset of Runner.run did: not entered, returned normally, or raised.
NoBodies == [s \in WrappedStages \cup {"HARD_RESET"} |-> "none"]

\* One signal read against the brackets open before it: the brackets after
\* it, and what went wrong.
BracketStep(st, e) ==
    CASE e.sig = "WORKLOAD_SPEC_START" ->
            [st EXCEPT !.spec_open = e.spec,
                       !.start_overlap = @ \/ st.spec_open # None]
      [] e.sig = "WORKLOAD_SPEC_END" ->
            [st EXCEPT !.spec_open = None,
                       !.end_unmatched = @ \/ st.spec_open # e.spec]
      [] e.sig = "ITERATION_START" ->
            [st EXCEPT !.iter_open = TRUE,
                       !.iter_overlap = @ \/ st.iter_open,
                       !.iter_outside = @ \/ st.spec_open # e.spec]
      [] e.sig = "ITERATION_END" ->
            [st EXCEPT !.iter_open = FALSE,
                       !.iter_outside = @ \/ st.spec_open # e.spec]
      [] OTHER -> st

RECURSIVE BracketScan(_, _)
BracketScan(st, tr) ==
    IF tr = <<>> THEN st ELSE BracketScan(BracketStep(st, Head(tr)), Tail(tr))

\* The brackets after the signals of `tr`, which began with those of `c` open.
Brackets(c, tr) ==
    BracketScan([iter_open |-> c.iter_open, spec_open |-> c.spec_open,
                 start_overlap |-> FALSE, end_unmatched |-> FALSE,
                 iter_overlap |-> FALSE, iter_outside |-> FALSE], tr)

\* The trace starts afresh: what it left open is carried over.
Carried(c, tr) ==
    LET b == Brackets(c, tr) IN [iter_open |-> b.iter_open, spec_open |-> b.spec_open]

\* A workload hook is invoked.
Invoked(hooks) == IF context.aborted THEN abortedHooks \cup hooks ELSE abortedHooks

\* ----------------------------------------------------------------- Init

\* The queue Executor hands to Runner.run: init_queue of the chosen runner.
InitQueue(order, specs, iterations) ==
    IF order = "by_spec" THEN BySpecQueue(specs, iterations)
    ELSE BySectionQueue(specs, iterations)

\* The number of jobs of the initial queue.
QueueLength(iterations) == SumOver(iterations, Specs)

\* An agenda with the single spec A.
OnlyA == SubSeq(SpecList, 1, 1)

\* The runs of the model, in three families around the plain run (no retry, no
\* reboot, no flashing): the reboot policies and flashing over the shortest
\* queues (one job of each spec, or two jobs of a single spec), the iteration
\* counts up to MaxJobs jobs (each in both execution orders, see Init), and
\* the retry settings up to MaxRetries over the shortest queue.  One run
\* reboots on each spec over a longer queue, so that a job which reboots has
\* jobs after it.
PlainRun ==
    [max_retries |-> 0,
     retry_on_status |-> {FAILED, PARTIAL},
     reboot_policy |-> CHOOSE p \in RebootPolicies : ~p.can_reboot,
     flash |-> {},
     workload_specs |-> SpecList,
     number_of_iterations |-> [s \in Specs |-> 1]]

RebootRuns ==
    {[PlainRun EXCEPT !.reboot_policy = p, !.flash = f] :
        p \in RebootPolicies, f \in {{}, {"B"}}}
    \cup
    {[PlainRun EXCEPT !.reboot_policy = p, !.workload_specs = OnlyA,
                      !.number_of_iterations = [s \in Specs |-> 2]] :
        p \in RebootPolicies}
    \cup
    {[PlainRun EXCEPT !.reboot_policy = p,
                      !.number_of_iterations =
                          [s \in Specs |-> IF s = Head(SpecList) THEN MaxIterations ELSE 1]] :
        p \in {q \in RebootPolicies : q.reboot_on_each_spec /\ ~q.reboot_on_each_iteration}}

QueueRuns ==
    {[PlainRun EXCEPT !.number_of_iterations = n] :
        n \in {m \in [Specs -> 1..MaxIterations] : QueueLength(m) <= MaxJobs}}

RetryRuns ==
    {[PlainRun EXCEPT !.max_retries = m, !.retry_on_status = r] :
        m \in 1..MaxRetries, r \in RetrySets}

ExecutionOrders == {"by_spec", "by_section"}

Configs == RebootRuns \cup QueueRuns \cup RetryRuns

Init ==
    /\ config \in Configs
    /\ pc = "run_start"
    /\ exc = NoExc
    /\ enabled = [s \in Specs |-> TRUE]
    /\ \E order \in ExecutionOrders :
          job_queue = InitQueue(order, config.workload_specs, config.number_of_iterations)
    /\ completed_jobs = <<>>
    /\ iteration_results = <<>>
    /\ context = NewContext(Specs, FALSE, 0)
    /\ reboot_attempts = 0
    /\ trace = <<>>
    /\ carry = [iter_open |-> FALSE, spec_open |-> None]
    /\ popped = 0
    /\ bodies = NoBodies
    /\ abortedHooks = {}
    /\ notes = [interrupted |-> {}, exhausted |-> {}, unrecovered |-> {}]

queueVars == <<job_queue, completed_jobs, iteration_results, context, popped>>

\* An exception leaves Runner.run.
Crash(e) ==
    /\ pc' = "crashed"
    /\ exc' = e

\* -------------------------------------------------------- run start-up

\* Runner.run: RUN_START.
RunStart ==
    /\ pc = "run_start"
    /\ trace' = Send(trace, "RUN_START")
    /\ pc' = "connect"
    /\ UNCHANGED <<exc, config, enabled, queueVars, reboot_attempts, carry, bodies,
                   abortedHooks, notes>>

\* Runner._connect_to_device.
ConnectToDevice ==
    /\ pc = "connect"
    /\ UNCHANGED <<config, enabled, queueVars, carry, abortedHooks, notes>>
    /\ reboot_attempts' = 0
    /\ \E o \in RecoveryOutcomes, can_reset \in BOOLEAN, hard \in CallOutcomes :
        LET t0 == Call(trace, "connect") IN
        IF ~config.reboot_policy.perform_initial_boot
        THEN /\ trace' = t0
             /\ bodies' = bodies
             /\ IF o = "ok" THEN pc' = "initialize" /\ exc' = exc
                ELSE Crash(Raise(o, "connect"))
        ELSE CASE o = "ok" ->
                    /\ trace' = WrapEnter(WrapEnter(t0, "INITIAL_BOOT"), "BOOT")
                    /\ bodies' = bodies
                    /\ pc' = "initial_boot"
                    /\ exc' = exc
               [] o = "DeviceError" /\ can_reset ->
                    /\ trace' = WrapExit(Call(WrapEnter(t0, "INITIAL_BOOT"), "boot_hard"),
                                         "INITIAL_BOOT", hard # "ok")
                    /\ bodies' = [bodies EXCEPT !["INITIAL_BOOT"] =
                                      IF hard = "ok" THEN "ok" ELSE "raised"]
                    /\ IF hard = "ok" THEN pc' = "initialize" /\ exc' = exc
                       ELSE Crash(Raise(hard, "boot_hard"))
               [] OTHER ->
                    /\ trace' = t0
                    /\ bodies' = bodies
                    /\ Crash(Raise(o, "connect"))

\* An exception leaves _reboot_device: out of run() from the initial boot, to
\* the handlers of the job loop from a job.
BootRaised(initial, tr, e) ==
    /\ exc' = e
    /\ IF initial
       THEN /\ trace' = WrapExit(WrapExit(tr, "BOOT", TRUE), "INITIAL_BOOT", TRUE)
            /\ bodies' = [bodies EXCEPT !["BOOT"] = "raised", !["INITIAL_BOOT"] = "raised"]
            /\ pc' = "crashed"
       ELSE /\ trace' = WrapExit(tr, "BOOT", TRUE)
            /\ bodies' = [bodies EXCEPT !["BOOT"] = "raised"]
            /\ pc' = "job_except"

\* A loop that makes one attempt more: the bound of the reboot (C23) rests on
\* the range of the loop.
AttemptsLeftOneMore(n) == n + 1 < MAX_REBOOT_ATTEMPTS + 1

\* for reboot_attempts in xrange(MAX_REBOOT_ATTEMPTS): after the attempt
\* numbered n (from 0) failed, the loop has another round.
AttemptsLeft(n) == n + 1 < MAX_REBOOT_ATTEMPTS

\* Runner._reboot_device: one round of the loop over MAX_REBOOT_ATTEMPTS.
BootAttempt(initial) ==
    /\ pc = IF initial THEN "initial_boot" ELSE "boot"
    /\ UNCHANGED <<config, enabled, completed_jobs, iteration_results, context, popped,
                   carry, abortedHooks>>
    /\ \E o \in CallOutcomes, probe \in ProbeOutcomes :
        LET h == HandleErrors(o, "boot", probe, HeadResult, job_queue # <<>>, FAILED)
            t == Call(trace, "boot")
        IN  /\ job_queue' = SetHead(job_queue, h.result)
            /\ IF h.exc # NoExc
               THEN /\ reboot_attempts' = reboot_attempts
                    /\ notes' = notes
                    /\ BootRaised(initial, t, h.exc)
               ELSE IF o = "ok"
               THEN /\ reboot_attempts' = reboot_attempts
                    /\ trace' = t
                    /\ pc' = IF initial THEN "initial_boot_connect" ELSE "boot_connect"
                    /\ UNCHANGED <<exc, bodies, notes>>
               ELSE IF AttemptsLeft(reboot_attempts)
               THEN /\ reboot_attempts' = reboot_attempts + 1
                    /\ trace' = t
                    /\ UNCHANGED <<pc, exc, bodies, notes>>
               ELSE /\ reboot_attempts' = reboot_attempts + 1
                    /\ notes' = IF initial THEN notes
                                ELSE [notes EXCEPT !.exhausted =
                                         @ \cup {Len(completed_jobs) + 1}]
                    /\ BootRaised(initial, t, Raise("DeviceError", "max_reboot_attempts"))

\* Runner._reboot_device: device.connect() after the boot that worked.
BootConnect(initial) ==
    /\ pc = IF initial THEN "initial_boot_connect" ELSE "boot_connect"
    /\ UNCHANGED <<config, enabled, queueVars, reboot_attempts, carry, abortedHooks,
                   notes>>
    /\ \E o \in CallOutcomes :
        LET t == Call(trace, "connect") IN
        IF o # "ok" THEN BootRaised(initial, t, Raise(o, "connect"))
        ELSE /\ exc' = exc
             /\ IF initial
                THEN /\ trace' = WrapExit(WrapExit(t, "BOOT", FALSE), "INITIAL_BOOT", FALSE)
                     /\ bodies' = [bodies EXCEPT !["BOOT"] = "ok", !["INITIAL_BOOT"] = "ok"]
                     /\ pc' = "initialize"
                ELSE /\ trace' = WrapExit(t, "BOOT", FALSE)
                     /\ bodies' = [bodies EXCEPT !["BOOT"] = "ok"]
                     /\ pc' = "start"

\* Runner._initialize_run after the connection: device and workloads are
\* initialized, RUN_INIT is sent, instrumentation failures end the run.
InitializeRun ==
    /\ pc = "initialize"
    /\ UNCHANGED <<config, enabled, queueVars, reboot_attempts, carry, bodies, notes>>
    /\ \E dev \in CallOutcomes, wl \in CallOutcomes, failures \in BOOLEAN :
        LET t0 == Call(trace, "device_initialize")
            t1 == Call(t0, "initialize")
        IN  IF dev # "ok"
            THEN trace' = t0 /\ abortedHooks' = abortedHooks
                 /\ Crash(Raise(dev, "device_initialize"))
            ELSE /\ abortedHooks' = Invoked({"initialize"})
                 /\ IF wl # "ok" THEN trace' = t1 /\ Crash(Raise(wl, "initialize"))
                    ELSE /\ trace' = Send(t1, "RUN_INIT")
                         /\ IF failures THEN Crash(Raise("Error", "check_failures"))
                            ELSE pc' = "loop" /\ exc' = exc

\* ------------------------------------------------------------ the job loop

theSpec == Head(job_queue).spec

\* Runner._init_job: the head of the queue becomes the context's job.
InitJob ==
    /\ pc = "loop"
    /\ job_queue # <<>>
    /\ LET started == SetHead(job_queue, [HeadResult EXCEPT !.status = RUNNING])
           nj == NextJob(context, Head(started))
       IN  /\ context' = nj.context
           /\ job_queue' = SetHead(started, nj.result)
    /\ carry' = Carried(carry, trace)
    /\ trace' = <<>>
    /\ bodies' = NoBodies
    /\ pc' = "run_job"
    /\ UNCHANGED <<exc, config, enabled, completed_jobs, iteration_results,
                   reboot_attempts, popped, abortedHooks, notes>>

\* A runner that leaves the spec enabled when it means to skip the rest of
\* its iterations: the skipping of the later jobs of the spec (C19) rests on
\* the flag being cleared.
DisableForgotten(en, spec) == en

\* spec.enabled = False
Disable(en, spec) == [en EXCEPT ![spec] = FALSE]

\* Runner._run_job up to the reboot decision: a disabled spec is skipped; a
\* spec with flash set flashes; the first job never reboots; then the policy.
RunJob ==
    /\ pc = "run_job"
    /\ UNCHANGED <<config, enabled, completed_jobs, iteration_results, context, popped,
                   carry, bodies, abortedHooks, notes>>
    /\ reboot_attempts' = 0
    /\ \E can_flash \in BOOLEAN :
        LET policy == config.reboot_policy IN
        IF ~enabled[theSpec]
        THEN /\ job_queue' = SetHead(job_queue, [HeadResult EXCEPT !.status = SKIPPED])
             /\ pc' = "finalize_job"
             /\ UNCHANGED <<exc, trace>>
        ELSE /\ job_queue' = job_queue
             /\ IF theSpec \in config.flash
                THEN IF ~policy.can_reboot
                     THEN /\ pc' = "job_except"
                          /\ exc' = Raise("WAError", "flash_not_permitted")
                          /\ trace' = trace
                     ELSE IF ~can_flash
                     THEN /\ pc' = "job_except"
                          /\ exc' = Raise("DeviceError", "flash_not_supported")
                          /\ trace' = trace
                     ELSE /\ pc' = "flash"
                          /\ trace' = WrapEnter(trace, "FLASHING")
                          /\ exc' = exc
                ELSE IF completed_jobs = <<>>
                THEN pc' = "start" /\ UNCHANGED <<exc, trace>>
                ELSE IF policy.reboot_on_each_spec /\ SpecChanged(job_queue, completed_jobs)
                THEN pc' = "boot" /\ trace' = WrapEnter(trace, "BOOT") /\ exc' = exc
                ELSE IF policy.reboot_on_each_iteration
                THEN pc' = "boot" /\ trace' = WrapEnter(trace, "BOOT") /\ exc' = exc
                ELSE pc' = "start" /\ UNCHANGED <<exc, trace>>

\* Runner._flash_device: device.flash and device.connect inside FLASHING.
FlashDevice ==
    /\ pc = "flash"
    /\ UNCHANGED <<config, enabled, queueVars, reboot_attempts, carry, abortedHooks,
                   notes>>
    /\ \E fl \in CallOutcomes, co \in CallOutcomes :
        LET t1 == Call(trace, "flash")
            t2 == IF fl = "ok" THEN Call(t1, "connect") ELSE t1
            e == IF fl # "ok" THEN Raise(fl, "flash")
                 ELSE IF co # "ok" THEN Raise(co, "connect") ELSE NoExc
        IN  /\ trace' = WrapExit(t2, "FLASHING", e # NoExc)
            /\ bodies' = [bodies EXCEPT !["FLASHING"] = IF e = NoExc THEN "ok" ELSE "raised"]
            /\ exc' = e
            /\ pc' = IF e = NoExc THEN "start" ELSE "job_except"

\* _run_job: the instruments are armed, the device is started, and the job
\* announces itself: WORKLOAD_SPEC_START on a spec change, ITERATION_START.
StartDevice ==
    /\ pc = "start"
    /\ UNCHANGED <<config, enabled, queueVars, reboot_attempts, carry, bodies,
                   abortedHooks, notes>>
    /\ \E o \in CallOutcomes :
        LET t == Call(trace, "start") IN
        IF o # "ok"
        THEN trace' = t /\ exc' = Raise(o, "start") /\ pc' = "job_except"
        ELSE /\ trace' = IF SpecChanged(job_queue, completed_jobs)
                         THEN Send(Send(t, "WORKLOAD_SPEC_START"), "ITERATION_START")
                         ELSE Send(t, "ITERATION_START")
             /\ exc' = exc
             /\ pc' = "set_params"

\* _run_job: set_runtime_parameters under 'Setting up device parameters'; a
\* handled error disables the spec.
SetRuntimeParameters ==
    /\ pc = "set_params"
    /\ UNCHANGED <<config, completed_jobs, iteration_results, context, popped,
                   reboot_attempts, carry, bodies, abortedHooks, notes>>
    /\ \E o \in CallOutcomes, probe \in ProbeOutcomes :
        LET h == HandleErrors(o, "set_runtime_parameters", probe, HeadResult, TRUE, FAILED)
            t == Call(trace, "set_runtime_parameters")
        IN  IF o = "ok"
            THEN /\ job_queue' = SetHead(job_queue, [HeadResult EXCEPT !.status = RUNNING])
                 /\ trace' = t
                 /\ pc' = "setup"
                 /\ UNCHANGED <<exc, enabled>>
            ELSE /\ job_queue' = SetHead(job_queue, h.result)
                 /\ enabled' = IF h.exc = NoExc THEN Disable(enabled, theSpec)
                                ELSE enabled
                 /\ exc' = h.exc
                 /\ trace' = JobTail(t, h.exc, FALSE)
                 /\ pc' = "stop"

\* _run_workload_iteration: workload.setup inside WORKLOAD_SETUP; when it
\* raises, the spec is disabled and the error goes to the handler of _run_job.
WorkloadSetup ==
    /\ pc = "setup"
    /\ UNCHANGED <<config, completed_jobs, iteration_results, context, popped,
                   reboot_attempts, carry, notes>>
    /\ abortedHooks' = Invoked({"setup"})
    /\ \E o \in CallOutcomes, probe \in ProbeOutcomes :
        LET h == HandleErrors(o, "setup", probe, HeadResult, TRUE, FAILED)
            t == WrapExit(Call(WrapEnter(trace, "WORKLOAD_SETUP"), "setup"),
                          "WORKLOAD_SETUP", o # "ok")
        IN  /\ bodies' = [bodies EXCEPT !["WORKLOAD_SETUP"] =
                              IF o = "ok" THEN "ok" ELSE "raised"]
            /\ IF o = "ok"
               THEN /\ trace' = t
                    /\ pc' = "run"
                    /\ UNCHANGED <<exc, enabled, job_queue>>
               ELSE /\ enabled' = Disable(enabled, theSpec)
                    /\ job_queue' = SetHead(job_queue, h.result)
                    /\ exc' = h.exc
                    /\ trace' = JobTail(t, h.exc, FALSE)
                    /\ pc' = "stop"

\* _run_workload_iteration: workload.run inside WORKLOAD_EXECUTION, under
\* 'Running workload'.
WorkloadRun ==
    /\ pc = "run"
    /\ UNCHANGED <<config, enabled, completed_jobs, iteration_results, context, popped,
                   reboot_attempts, carry>>
    /\ abortedHooks' = Invoked({"run"})
    /\ \E o \in CallOutcomes, probe \in ProbeOutcomes :
        LET h == HandleErrors(o, "run", probe, HeadResult, TRUE, FAILED) IN
        /\ trace' = WrapExit(Call(WrapEnter(trace, "WORKLOAD_EXECUTION"), "run"),
                             "WORKLOAD_EXECUTION", o # "ok")
        /\ bodies' = [bodies EXCEPT !["WORKLOAD_EXECUTION"] =
                          IF o = "ok" THEN "ok" ELSE "raised"]
        /\ notes' = IF o = "KI"
                    THEN [notes EXCEPT !.interrupted = @ \cup {Len(completed_jobs) + 1}]
                    ELSE notes
        /\ job_queue' = SetHead(job_queue, h.result)
        /\ exc' = h.exc
        /\ pc' = IF h.exc = NoExc THEN "update" ELSE "teardown"

\* A result update that ends OK whenever the job has not FAILED: the status
\* after the result update (C21) rests on only the RUNNING sentinel being
\* promoted.
PromoteUnlessFailed(res) ==
    IF res.status # FAILED THEN [res EXCEPT !.status = OK] ELSE res

\* if self.current_job.result.status == IterationResult.RUNNING:
\*     self.current_job.result.status = IterationResult.OK
Promote(res) ==
    IF res.status = RUNNING THEN [res EXCEPT !.status = OK] ELSE res

\* _run_workload_iteration: the result update between BEFORE_ and
\* AFTER_WORKLOAD_RESULT_UPDATE; update_result is called unless the job FAILED.
WorkloadUpdateResult ==
    /\ pc = "update"
    /\ UNCHANGED <<config, enabled, completed_jobs, iteration_results, context, popped,
                   reboot_attempts, carry, notes>>
    /\ pc' = "teardown"
    /\ LET t0 == Send(trace, "BEFORE_WORKLOAD_RESULT_UPDATE") IN
       IF HeadResult.status # FAILED
       THEN /\ abortedHooks' = Invoked({"update_result"})
            /\ \E o \in CallOutcomes, probe \in ProbeOutcomes :
                LET h == HandleErrors(o, "update_result", probe, HeadResult, TRUE, PARTIAL)
                    t1 == Call(t0, "update_result")
                    t2 == IF o = "ok" THEN Send(t1, "SUCCESSFUL_WORKLOAD_RESULT_UPDATE")
                          ELSE t1
                    promoted == IF h.exc = NoExc THEN Promote(h.result) ELSE h.result
                IN  /\ trace' = Send(t2, "AFTER_WORKLOAD_RESULT_UPDATE")
                    /\ bodies' = [bodies EXCEPT !["WORKLOAD_RESULT_UPDATE"] =
                                      IF o = "ok" THEN "ok" ELSE "raised"]
                    /\ job_queue' = SetHead(job_queue, promoted)
                    /\ exc' = h.exc
       ELSE /\ trace' = Send(t0, "AFTER_WORKLOAD_RESULT_UPDATE")
            /\ bodies' = [bodies EXCEPT !["WORKLOAD_RESULT_UPDATE"] = "ok"]
            /\ UNCHANGED <<job_queue, exc, abortedHooks>>

\* _run_workload_iteration's finally: workload.teardown inside
\* WORKLOAD_TEARDOWN under 'Tearing down workload', then add_result; an
\* exception that leaves the handler takes the place of the one in flight.
WorkloadTeardown ==
    /\ pc = "teardown"
    /\ UNCHANGED <<config, enabled, completed_jobs, iteration_results, context, popped,
                   reboot_attempts, carry, notes>>
    /\ abortedHooks' = Invoked({"teardown"})
    /\ pc' = "stop"
    /\ \E o \in CallOutcomes, probe \in ProbeOutcomes :
        LET h == HandleErrors(o, "teardown", probe, HeadResult, TRUE, NONCRITICAL)
            t == WrapExit(Call(WrapEnter(trace, "WORKLOAD_TEARDOWN"), "teardown"),
                          "WORKLOAD_TEARDOWN", o # "ok")
            e == IF h.exc # NoExc THEN h.exc ELSE exc
            t2 == IF h.exc # NoExc THEN t ELSE Call(t, "add_result")
        IN  /\ bodies' = [bodies EXCEPT !["WORKLOAD_TEARDOWN"] =
                              IF o = "ok" THEN "ok" ELSE "raised"]
            /\ job_queue' = SetHead(job_queue, h.result)
            /\ exc' = e
            /\ trace' = JobTail(t2, e, enabled[theSpec])

\* _run_job's finally: device_manager.stop(); an exception it raises takes
\* the place of the one in flight.
DeviceStop ==
    /\ pc = "stop"
    /\ UNCHANGED <<config, enabled, queueVars, reboot_attempts, carry, bodies,
                   abortedHooks, notes>>
    /\ trace' = Call(trace, "stop")
    /\ \E o \in CallOutcomes :
        LET e == IF o = "ok" THEN exc ELSE Raise(o, "stop") IN
        /\ exc' = e
        /\ pc' = IF e = NoExc THEN "finalize_job" ELSE "job_except"

\* An except clause that records the event of an error and leaves the status
\* as it is: the terminal status of every finalized job (C27) rests on the
\* clause marking the job FAILED.
ExceptedEventOnly(res, e) ==
    IF e.kind = "KI" THEN [res EXCEPT !.status = ABORTED]
    ELSE [res EXCEPT !.events = Append(@, e.from)]

\* The job's result after the except clauses of Runner.run's job loop caught
\* the exception e.
Excepted(res, e) ==
    IF e.kind = "KI" THEN [res EXCEPT !.status = ABORTED]
    ELSE [res EXCEPT !.status = FAILED, !.events = Append(@, e.from)]

\* Runner.run's except clauses of the job loop: KeyboardInterrupt marks the
\* job ABORTED and goes on; any other exception marks it FAILED, and a
\* DeviceNotRespondingError goes on unless the device can be hard-reset.
JobExcept ==
    /\ pc = "job_except"
    /\ UNCHANGED <<config, enabled, completed_jobs, iteration_results, context, popped,
                   reboot_attempts, trace, carry, bodies, abortedHooks, notes>>
    /\ job_queue' = SetHead(job_queue, Excepted(HeadResult, exc))
    /\ IF exc.kind = "KI"
       THEN /\ pc' = "finalize_job"
            /\ exc' = exc
       ELSE /\ IF IsNotResponding(exc)
               THEN \E can_reset \in BOOLEAN :
                      /\ exc' = exc
                      /\ pc' = IF config.reboot_policy.can_reboot /\ can_reset
                               THEN "hard_boot" ELSE "finalize_job"
               ELSE /\ exc' = NoExc
                    /\ pc' = "finalize_job"

\* A hard reset that raises the DeviceNotRespondingError again even when it
\* succeeded: the recovery (C14) rests on the exception ending with a
\* successful hard boot.
HardBootThenRaise ==
    /\ pc = "hard_boot"
    /\ UNCHANGED <<config, enabled, queueVars, reboot_attempts, carry, abortedHooks,
                   notes>>
    /\ pc' = "finalize_job"
    /\ \E bo \in RecoveryOutcomes, co \in RecoveryOutcomes :
        LET t1 == Call(trace, "boot_hard")
            failed == IF bo # "ok" THEN Raise(bo, "boot_hard")
                      ELSE IF co # "ok" THEN Raise(co, "connect") ELSE NoExc
        IN  /\ trace' = IF bo = "ok" THEN Call(t1, "connect") ELSE t1
            /\ bodies' = [bodies EXCEPT !["HARD_RESET"] =
                              IF failed = NoExc THEN "ok" ELSE "raised"]
            /\ exc' = CASE failed = NoExc -> exc
                         [] failed.kind = "DeviceError" -> exc
                         [] OTHER -> failed

\* Runner.run: device.boot(hard=True) and device.connect(); a DeviceError
\* raises the DeviceNotRespondingError again, anything else goes on as it is.
HardBoot ==
    /\ pc = "hard_boot"
    /\ UNCHANGED <<config, enabled, queueVars, reboot_attempts, carry, abortedHooks,
                   notes>>
    /\ pc' = "finalize_job"
    /\ \E bo \in RecoveryOutcomes, co \in RecoveryOutcomes :
        LET t1 == Call(trace, "boot_hard")
            failed == IF bo # "ok" THEN Raise(bo, "boot_hard")
                      ELSE IF co # "ok" THEN Raise(co, "connect") ELSE NoExc
        IN  /\ trace' = IF bo = "ok" THEN Call(t1, "connect") ELSE t1
            /\ bodies' = [bodies EXCEPT !["HARD_RESET"] =
                              IF failed = NoExc THEN "ok" ELSE "raised"]
            /\ exc' = CASE failed = NoExc -> NoExc
                         [] failed.kind = "DeviceError" -> exc
                         [] OTHER -> failed

\* Runner.run's finally of the job loop: _finalize_job; then the loop goes
\* on, or the exception in flight reaches the except clauses around the loop
\* (the one for DeviceNotRespondingError sets context.aborted), or leaves run().
FinalizeJob ==
    /\ pc = "finalize_job"
    /\ LET f == Finalized(job_queue, context) IN
       /\ iteration_results' = f.iteration_results
       /\ job_queue' = f.job_queue
       /\ completed_jobs' = f.completed_jobs
       /\ context' = IF AfterJob(exc) = "drain_skip" THEN [f.context EXCEPT !.aborted = TRUE]
                     ELSE f.context
    /\ popped' = popped + 1
    /\ pc' = AfterJob(exc)
    /\ exc' = IF AfterJob(exc) = "crashed" THEN exc ELSE NoExc
    /\ notes' = IF exc.kind = "DNRE"
                THEN [notes EXCEPT !.unrecovered = @ \cup {Len(completed_jobs) + 1}]
                ELSE notes
    /\ UNCHANGED <<config, enabled, reboot_attempts, trace, carry, bodies, abortedHooks>>

\* Runner.run's drains: the head of the queue becomes the context's job, gets
\* `status` and is finalized without being run.
Drain(at, status) ==
    /\ pc = at
    /\ job_queue # <<>>
    /\ LET nj == NextJob(context, Head(job_queue))
           f == Finalized(SetHead(job_queue, [nj.result EXCEPT !.status = status]),
                          nj.context)
       IN  /\ iteration_results' = f.iteration_results
           /\ job_queue' = f.job_queue
           /\ completed_jobs' = f.completed_jobs
           /\ context' = f.context
    /\ popped' = popped + 1
    /\ UNCHANGED <<pc, exc, config, enabled, reboot_attempts, trace, carry, bodies,
                   abortedHooks, notes>>

\* A drain that finalizes no job: the end of the run (C25) rests on every
\* round of a drain loop taking a job off the queue.
DrainAbortedLeavingQueue ==
    /\ pc = "drain_abort"
    /\ job_queue # <<>>
    /\ UNCHANGED vars

\* The drain after KeyboardInterrupt.
DrainAborted == Drain("drain_abort", ABORTED)

\* A drain after an unrecoverable DeviceNotRespondingError that marks the
\* jobs ABORTED, as the drain after an interrupt does: the statuses of the
\* unrecoverable-device drain (C13) rest on the status each drain sets.
DrainSkippedMarkingAborted == Drain("drain_skip", ABORTED)

\* The drain after an unrecoverable DeviceNotRespondingError.
DrainSkipped == Drain("drain_skip", SKIPPED)

\* ------------------------------------------------------- run shutdown

\* Runner._finalize_run: every workload is finalized, RUN_FIN is sent.
FinalizeRun ==
    /\ pc \in {"loop", "drain_abort", "drain_skip"}
    /\ job_queue = <<>>
    /\ carry' = Carried(carry, trace)
    /\ bodies' = NoBodies
    /\ abortedHooks' = Invoked({"finalize"})
    /\ UNCHANGED <<config, enabled, queueVars, reboot_attempts, notes>>
    /\ \E o \in CallOutcomes :
        IF o = "ok"
        THEN /\ trace' = Send(Call(<<>>, "finalize"), "RUN_FIN")
             /\ pc' = "disconnect"
             /\ exc' = exc
        ELSE /\ trace' = Call(<<>>, "finalize")
             /\ Crash(Raise(o, "finalize"))

\* Runner._finalize_run: device.disconnect() under 'Disconnecting from the
\* device'; no job is current, so a handled error marks no result.
Disconnect ==
    /\ pc = "disconnect"
    /\ UNCHANGED <<config, enabled, queueVars, reboot_attempts, carry, bodies,
                   abortedHooks, notes>>
    /\ trace' = Call(trace, "disconnect")
    /\ \E o \in CallOutcomes, probe \in ProbeOutcomes :
        LET h == HandleErrors(o, "disconnect", probe, NewResult, job_queue # <<>>, FAILED) IN
        IF h.exc = NoExc THEN pc' = "process" /\ exc' = exc
        ELSE Crash(h.exc)

\* Runner._process_results inside OVERALL_RESULTS_PROCESSING, then
\* result_manager.finalize and RUN_END.
ProcessResults ==
    /\ pc = "process"
    /\ trace' = Send(WrapExit(Call(WrapEnter(trace, "OVERALL_RESULTS_PROCESSING"),
                                   "process_run_result"),
                              "OVERALL_RESULTS_PROCESSING", FALSE), "RUN_END")
    /\ bodies' = [bodies EXCEPT !["OVERALL_RESULTS_PROCESSING"] = "ok"]
    /\ pc' = "done"
    /\ UNCHANGED <<exc, config, enabled, queueVars, reboot_attempts, carry, abortedHooks,
                   notes>>

Next ==
    \/ RunStart
    \/ ConnectToDevice
    \/ BootAttempt(TRUE)
    \/ BootConnect(TRUE)
    \/ InitializeRun
    \/ InitJob
    \/ RunJob
    \/ FlashDevice
    \/ BootAttempt(FALSE)
    \/ BootConnect(FALSE)
    \/ StartDevice
    \/ SetRuntimeParameters
    \/ WorkloadSetup
    \/ WorkloadRun
    \/ WorkloadUpdateResult
    \/ WorkloadTeardown
    \/ DeviceStop
    \/ JobExcept
    \/ HardBoot
    \/ FinalizeJob
    \/ DrainAborted
    \/ DrainSkipped
    \/ FinalizeRun
    \/ Disconnect
    \/ ProcessResults

Spec == Init /\ [][Next]_vars

\* Runner.run with every call returning or raising: a step that can be taken
\* is taken.
FairSpec == Spec /\ WF_vars(Next)


\* ------------------------------------------- the Executor builds the queue

\* The agendas: up to MaxSpecs specs of the pool, none named twice.
Agendas ==
    {a \in UNION {[1..n -> PoolIds] : n \in 1..MaxSpecs} :
        \A i, j \in 1..Len(a) : a[i] = a[j] => i = j}

\* The specs of an agenda.
AgendaSpecs(a) == {a[i] : i \in 1..Len(a)}

\* config.execution_order: not set (None), one of the names _get_runner
\* knows, or some other name.
QueueOrders == {None, "by_iteration", "classic", "by_spec", "by_section", "random", "other"}

\* The runner class Executor._get_runner picks for an execution order.
GetRunner(order) ==
    CASE order \in {None, "by_iteration"} -> "ByIterationRunner"
      [] order \in {"classic", "by_spec"} -> "BySpecRunner"
      [] order = "by_section" -> "BySectionRunner"
      [] order = "random" -> "RandomRunner"
      [] OTHER -> "ConfigError"

\* The configurations init_queue is run on: every agenda with every
\* iteration count up to MaxIterations per spec, in every execution order; the
\* random order over the queues of up to MaxShuffled jobs.
QueueConfigs ==
    {c \in UNION {[workload_specs : {a},
                   number_of_iterations : [AgendaSpecs(a) -> 1..MaxIterations],
                   execution_order : QueueOrders] : a \in Agendas} :
        c.execution_order = "random" =>
            SumOver(c.number_of_iterations, AgendaSpecs(c.workload_specs)) <= MaxShuffled}

QueueInit ==
    /\ config \in QueueConfigs
    /\ pc = "get_runner"
    /\ exc = NoExc
    /\ enabled = [s \in AgendaSpecs(config.workload_specs) |-> TRUE]
    /\ job_queue = <<>>
    /\ completed_jobs = <<>>
    /\ iteration_results = <<>>
    /\ context = NewContext(AgendaSpecs(config.workload_specs), FALSE, 0)
    /\ reboot_attempts = 0
    /\ trace = <<>>
    /\ carry = [iter_open |-> FALSE, spec_open |-> None]
    /\ popped = 0
    /\ bodies = NoBodies
    /\ abortedHooks = {}
    /\ notes = [interrupted |-> {}, exhausted |-> {}, unrecovered |-> {}]

runnerVars == <<config, enabled, completed_jobs, iteration_results, context,
                reboot_attempts, trace, carry, popped, bodies, abortedHooks, notes>>

\* Executor._get_runner: the runner class of the execution order, or a
\* ConfigError for an order it does not know.
ExecutorGetRunner ==
    /\ pc = "get_runner"
    /\ IF GetRunner(config.execution_order) = "ConfigError"
       THEN Crash(Raise("ConfigError", "_get_runner"))
       ELSE pc' = GetRunner(config.execution_order) /\ exc' = exc
    /\ UNCHANGED <<job_queue, runnerVars>>

\* runner.init_queue(specs) of the runner class `cls`, which can build the
\* queues `queues`.
InitQueueOf(cls, queues) ==
    /\ pc = cls
    /\ job_queue' \in queues
    /\ pc' = "queued"
    /\ UNCHANGED <<exc, runnerVars>>

BySpecInitQueue ==
    InitQueueOf("BySpecRunner",
                {BySpecQueue(config.workload_specs, config.number_of_iterations)})

BySectionInitQueue ==
    InitQueueOf("BySectionRunner",
                {BySectionQueue(config.workload_specs, config.number_of_iterations)})

ByIterationInitQueue ==
    InitQueueOf("ByIterationRunner",
                {ByIterationQueue(config.workload_specs, config.number_of_iterations)})

RandomInitQueue ==
    InitQueueOf("RandomRunner",
                RandomQueues(config.workload_specs, config.number_of_iterations))

QueueNext ==
    \/ ExecutorGetRunner
    \/ BySpecInitQueue
    \/ BySectionInitQueue
    \/ ByIterationInitQueue
    \/ RandomInitQueue

QueueSpec == QueueInit /\ [][QueueNext]_vars

\* ------------------------------------- the context registers artifacts

\* The ExecutionContext as the Runner and the instruments drive it: next_job
\* and end_job in turn, add_artifact at any time.  `trace` holds the
\* add_artifact calls made, `exc` the ValueError of the last call if it
\* raised one.

\* The names, paths and kinds handed to add_artifact: a path lies in the run's
\* root, in the directory of the first iteration of a spec, or is relative.
ArtifactNames == {<<"out">>, <<"runlog">>}

ArtifactPaths ==
    {[dir |-> d, file |-> <<"out">>] : d \in {<<>>, <<"run">>} \cup {<<s, 1>> : s \in Specs}}

ArtifactKinds == {"data", "log"}

ArtifactInit ==
    /\ config = CHOOSE c \in Configs : TRUE
    /\ pc = "context"
    /\ exc = NoExc
    /\ enabled = [s \in Specs |-> TRUE]
    /\ job_queue = <<>>
    /\ completed_jobs = <<>>
    /\ iteration_results = <<>>
    /\ \E agenda_file \in BOOLEAN, config_paths \in 0..1 :
          context = NewContext(Specs, agenda_file, config_paths)
    /\ reboot_attempts = 0
    /\ trace = <<>>
    /\ carry = [iter_open |-> FALSE, spec_open |-> None]
    /\ popped = 0
    /\ bodies = NoBodies
    /\ abortedHooks = {}
    /\ notes = [interrupted |-> {}, exhausted |-> {}, unrecovered |-> {}]

contextFixed == <<pc, config, enabled, job_queue, completed_jobs, iteration_results,
                  reboot_attempts, carry, popped, bodies, abortedHooks, notes>>

\* Runner._init_job: context.next_job(job), for up to MaxJobs jobs.
ContextNextJob ==
    /\ context.current_job = None
    /\ SumOver(context.job_iteration_counts, Specs) < MaxJobs
    /\ \E spec \in Specs : context' = NextJob(context, RunnerJob(spec, 0)).context
    /\ exc' = NoExc
    /\ UNCHANGED <<trace, contextFixed>>

\* Runner._finalize_job: context.end_job(), whatever the job's status.
ContextEndJob ==
    /\ context.current_job # None
    /\ \E status \in TerminalStatuses : context' = EndJob(context, status)
    /\ exc' = NoExc
    /\ UNCHANGED <<trace, contextFixed>>

\* context.add_artifact(name, path, kind).
ContextAddArtifact ==
    /\ Len(trace) < MaxArtifacts
    /\ \E name \in ArtifactNames, path \in ArtifactPaths, kind \in ArtifactKinds,
          isfile \in BOOLEAN :
          LET after == AddArtifact(context, name, path, kind, isfile)
          IN  /\ context' = after.context
              /\ exc' = IF after.raised THEN Raise("ValueError", "add_artifact") ELSE NoExc
              /\ trace' = Append(trace, [sig |-> "add_artifact", spec |-> context.current_job])
    /\ UNCHANGED contextFixed

ArtifactNext ==
    \/ ContextNextJob
    \/ ContextEndJob
    \/ ContextAddArtifact

ArtifactSpec == ArtifactInit /\ [][ArtifactNext]_vars

\* ---------------------------------------------------------- properties

\* The positions of Runner.run inside _run_job and its except clauses.
JobPcs == {"run_job", "flash", "boot", "boot_connect", "start", "set_params", "setup",
           "run", "update", "teardown", "stop", "job_except", "hard_boot", "finalize_job"}

\* How many of the completed jobs are jobs of spec s.
CompletedOf(s) ==
    Cardinality({i \in 1..Len(completed_jobs) : completed_jobs[i].spec = s})

\* The job that comes after the i-th completed one, if there is one yet.
HasNext(i) == i < Len(completed_jobs) \/ job_queue # <<>>

NextAfter(i) == IF i < Len(completed_jobs) THEN completed_jobs[i + 1] ELSE Head(job_queue)

\* C1 (count invariant): the run result holds one iteration result per
\* completed job and per job popped from the queue, retried and drained jobs
\* included, and the iteration counts of the context add up to the number of
\* iteration results, plus one while the context has a current job.
C1_CountInvariant ==
    /\ Len(iteration_results) = Len(completed_jobs)
    /\ Len(completed_jobs) = popped
    /\ SumOver(context.job_iteration_counts, Specs)
          = Len(iteration_results) + (IF context.current_job # None THEN 1 ELSE 0)

\* The run is over after an abort that drained a retried job.
C1_Witness ==
    /\ pc = "done"
    /\ context.aborted
    /\ Len(iteration_results) > QueueLength(config.number_of_iterations)
    /\ \E i \in 1..Len(completed_jobs) :
          completed_jobs[i].retry > 0 /\ completed_jobs[i].result.status \in {ABORTED, SKIPPED}

\* C2 (retry bound): at most N * (max_retries + 1) jobs of a spec with N
\* configured iterations are ever in completed_jobs, whatever retry_on_status
\* holds and however the jobs end.
C2_RetryBound ==
    \A s \in Specs :
        CompletedOf(s) <= config.number_of_iterations[s] * (config.max_retries + 1)

\* A spec has used up every attempt the bound allows, retries among them.
C2_Witness ==
    /\ config.max_retries >= 1
    /\ \E s \in Specs :
          CompletedOf(s) = config.number_of_iterations[s] * (config.max_retries + 1)

C4_NoHookAfterAbort == abortedHooks = {}

\* C4 (hooks after an abort), as the code has it: once context.aborted is
\* true, none of initialize, setup, run, update_result and teardown is invoked
\* for the rest of Runner.run, whether the user interrupted the run or the
\* device stopped responding; finalize is the one hook still invoked, by
\* _finalize_run, once the queue is drained.
C4_OnlyFinalizeAfterAbort ==
    /\ abortedHooks \subseteq {"finalize"}
    /\ (context.aborted /\ pc \in {"disconnect", "process", "done"})
          => "finalize" \in abortedHooks

\* An aborted run has drained its queue and come to its end.
C4_Witness ==
    /\ pc = "done"
    /\ context.aborted
    /\ Len(iteration_results) >= 2
    /\ Last(iteration_results).status \in {ABORTED, SKIPPED}
    /\ abortedHooks = {"finalize"}

\* C5 as claimed (interrupt drain): a job whose workload.run raised
\* KeyboardInterrupt is finalized ABORTED, every job finalized after it is
\* ABORTED, and no job is executed after it.
C5_InterruptDrain ==
    \A k \in notes.interrupted :
        /\ \A j \in k..Len(iteration_results) : iteration_results[j].status = ABORTED
        /\ Len(iteration_results) >= k => pc \notin JobPcs

\* C6 as claimed (S4, original statement): a job whose reboot ran out of
\* attempts is finalized FAILED and every job finalized after it is SKIPPED.
C6_RebootExhaustionDrains ==
    \A k \in notes.exhausted :
        /\ Len(iteration_results) >= k => iteration_results[k].status = FAILED
        /\ \A j \in (k + 1)..Len(iteration_results) : iteration_results[j].status = SKIPPED

\* C6 (reboot exhaustion), as the code has it: a job whose reboot ran out of
\* attempts is finalized FAILED; the DeviceError ends with that job, so
\* context.aborted stays as it was, no drain begins, and while jobs remain
\* the run loop goes on to start the next one.
C6_RebootExhaustionFailsJob ==
    \A k \in notes.exhausted :
        /\ Len(iteration_results) >= k => iteration_results[k].status = FAILED
        /\ Len(iteration_results) = k =>
              /\ ~context.aborted
              /\ pc \notin {"drain_abort", "drain_skip"}
              /\ job_queue # <<>> => pc \in {"loop"} \cup JobPcs

\* The job after one whose reboot ran out of attempts has been started, run
\* and finalized with a status of its own.
C6_Witness ==
    \E k \in notes.exhausted :
        /\ Len(iteration_results) > k
        /\ iteration_results[k].status = FAILED
        /\ iteration_results[k + 1].status = OK

\* C7 as claimed (iteration ordering): no ITERATION_START is emitted while
\* the ITERATION_START before it still waits for its ITERATION_END.
C7_IterationOrdering == ~Brackets(carry, trace).iter_overlap

\* C8 as claimed (spec-boundary ordering): no WORKLOAD_SPEC_START is emitted
\* while the WORKLOAD_SPEC_START before it still waits for its
\* WORKLOAD_SPEC_END.
C8_SpecBoundaryOrdering == ~Brackets(carry, trace).start_overlap

\* C9 as claimed (spec bracketing): WORKLOAD_SPEC_START and WORKLOAD_SPEC_END
\* alternate, starting with a START, each END closing the START of its own
\* spec, and ITERATION_START and ITERATION_END are only emitted between the
\* START and the END of their job's spec.
C9_SpecBracketing ==
    LET b == Brackets(carry, trace)
    IN  ~b.start_overlap /\ ~b.end_unmatched /\ ~b.iter_outside

\* The three signals of each wrapped stage.
WrapSignals ==
    [stage \in WrappedStages |-> [before |-> "BEFORE_" \o stage,
                                  successful |-> "SUCCESSFUL_" \o stage,
                                  after |-> "AFTER_" \o stage]]

\* The wrapped stage and the place in its wrap of each of these signals.
WrapSignalNames ==
    UNION {{WrapSignals[stage].before, WrapSignals[stage].successful,
            WrapSignals[stage].after} : stage \in WrappedStages}

WrapOf ==
    [sig \in WrapSignalNames |->
        CHOOSE p \in WrappedStages \X {"before", "successful", "after"} :
            WrapSignals[p[1]][p[2]] = sig]

\* One signal read against the wraps: for each stage, whether its wrap is
\* open, was closed at least once, has had its success signal since it
\* opened, and whether a signal of it came out of turn.
WrapStep(st, e) ==
    IF e.sig \notin WrapSignalNames THEN st
    ELSE LET stage == WrapOf[e.sig][1]
             place == WrapOf[e.sig][2]
             w == st[stage]
         IN  [st EXCEPT ![stage] =
                CASE place = "before" ->
                        [open |-> TRUE, successful |-> FALSE, closed |-> w.closed,
                         bad |-> w.bad \/ w.open]
                  [] place = "successful" ->
                        [w EXCEPT !.successful = TRUE,
                                  !.bad = @ \/ ~w.open \/ w.successful]
                  [] OTHER ->
                        [w EXCEPT !.open = FALSE, !.closed = TRUE, !.bad = @ \/ ~w.open]]

RECURSIVE WrapScan(_, _)
WrapScan(st, i) ==
    IF i > Len(trace) THEN st ELSE WrapScan(WrapStep(st, trace[i]), i + 1)

\* The wraps after the signals of the trace.
Wraps ==
    WrapScan([stage \in WrappedStages |->
                 [open |-> FALSE, successful |-> FALSE, closed |-> FALSE, bad |-> FALSE]],
             1)

\* The wrap of one stage.
Wrap(stage) == Wraps[stage]

\* The positions of Runner.run inside the body of a wrap of `stage`.
InsidePcs(stage) ==
    CASE stage = "BOOT" -> {"boot", "boot_connect", "initial_boot", "initial_boot_connect"}
      [] stage = "INITIAL_BOOT" -> {"initial_boot", "initial_boot_connect"}
      [] stage = "FLASHING" -> {"flash"}
      [] OTHER -> {}

\* BEFORE_X and AFTER_X alternate on every path: an AFTER_X follows each
\* BEFORE_X before the next one, and the wrap is closed whenever the run is
\* outside of its body.
WrapPaired(w, stage) == ~w.bad /\ (w.open => pc \in InsidePcs(stage))

\* SUCCESSFUL_X came exactly when the body of the wrap did not raise.
WrapTruthful(w, stage) == w.closed => (w.successful <=> bodies[stage] = "ok")

\* workload.update_result was called for the current job.
UpdateResultCalled == \E i \in 1..Len(trace) : trace[i].sig = "update_result"

\* C10 as claimed (original statement): the wraps are paired, and for every
\* wrapped stage SUCCESSFUL_X is emitted exactly when the wrapped body
\* completed without raising.
C10_SignalWrap ==
    LET ws == Wraps IN
    \A stage \in WrappedStages :
        WrapPaired(ws[stage], stage) /\ WrapTruthful(ws[stage], stage)

\* C10 (signal wrap), as the code has it: the wraps are paired on every exit
\* path; for every stage but WORKLOAD_RESULT_UPDATE, SUCCESSFUL_X is emitted
\* exactly when the wrapped body completed without raising; and
\* SUCCESSFUL_WORKLOAD_RESULT_UPDATE is emitted exactly when
\* workload.update_result was called (the job was not FAILED) and returned
\* without raising.
C10_SignalWrapButResultUpdate ==
    LET ws == Wraps IN
    \A stage \in WrappedStages :
        LET w == ws[stage] IN
        /\ WrapPaired(w, stage)
        /\ IF stage = "WORKLOAD_RESULT_UPDATE"
           THEN w.closed => (w.successful <=> (UpdateResultCalled /\ bodies[stage] = "ok"))
           ELSE WrapTruthful(w, stage)

\* A job whose setup succeeded and whose workload.run raised has gone through
\* the result update, which did not call update_result and sent no success
\* signal.
C10_Witness ==
    /\ pc = "teardown"
    /\ Wrap("WORKLOAD_RESULT_UPDATE").closed
    /\ ~Wrap("WORKLOAD_RESULT_UPDATE").successful
    /\ ~UpdateResultCalled
    /\ Wrap("WORKLOAD_EXECUTION").closed
    /\ ~Wrap("WORKLOAD_EXECUTION").successful
    /\ Wrap("WORKLOAD_SETUP").successful

\* The signals of an iteration: its start and end and the wraps of the four
\* workload hooks.
IterationSignalNames ==
    {"ITERATION_START", "ITERATION_END"}
    \cup UNION {{WrapSignals[stage].before, WrapSignals[stage].successful,
                 WrapSignals[stage].after} :
                   stage \in {"WORKLOAD_SETUP", "WORKLOAD_EXECUTION",
                              "WORKLOAD_RESULT_UPDATE", "WORKLOAD_TEARDOWN"}}

\* The iteration signals of the current job, in the order they were sent.
IterationSignals ==
    LET sent == SelectSeq(trace, LAMBDA e : e.sig \in IterationSignalNames)
    IN  [i \in 1..Len(sent) |-> sent[i].sig]

\* The iteration signals of a job that completes normally.
NormalTrace ==
    <<"ITERATION_START",
      "BEFORE_WORKLOAD_SETUP", "SUCCESSFUL_WORKLOAD_SETUP", "AFTER_WORKLOAD_SETUP",
      "BEFORE_WORKLOAD_EXECUTION", "SUCCESSFUL_WORKLOAD_EXECUTION",
      "AFTER_WORKLOAD_EXECUTION",
      "BEFORE_WORKLOAD_RESULT_UPDATE", "SUCCESSFUL_WORKLOAD_RESULT_UPDATE",
      "AFTER_WORKLOAD_RESULT_UPDATE",
      "BEFORE_WORKLOAD_TEARDOWN", "SUCCESSFUL_WORKLOAD_TEARDOWN",
      "AFTER_WORKLOAD_TEARDOWN",
      "ITERATION_END">>

\* Every signal and call of the current job's trace is one of that job.
OwnTrace == \A i \in 1..Len(trace) : trace[i].spec = context.current_job

\* The parameter setup and the four workload hooks of the current job have
\* all been called and have all returned normally.
AllHooksOk ==
    /\ bodies["WORKLOAD_SETUP"] = "ok"
    /\ bodies["WORKLOAD_EXECUTION"] = "ok"
    /\ bodies["WORKLOAD_RESULT_UPDATE"] = "ok"
    /\ UpdateResultCalled
    /\ bodies["WORKLOAD_TEARDOWN"] = "ok"

\* C11 as claimed (original statement): a job whose parameter setup and
\* four workload hooks returned normally comes to its finalization with the
\* iteration signals of the normal trace, in that order and all its own, and
\* with status OK.
C11_NormalJobTrace ==
    (pc = "finalize_job" /\ AllHooksOk) =>
        /\ IterationSignals = NormalTrace
        /\ OwnTrace
        /\ HeadResult.status = OK

\* C11 (normal job trace), as the code has it: a job whose parameter setup
\* and four workload hooks returned normally comes to its finalization with
\* the iteration signals of the normal trace, in that order and all its own;
\* its status is OK when device.stop() in the finally of _run_job returns
\* normally as well, that is when control passes from there straight to
\* _finalize_job, with no except clause of Runner.run in between.
C11_NormalJobTraceWhenStopped ==
    [][(pc' = "finalize_job" /\ AllHooksOk') =>
          /\ IterationSignals' = NormalTrace
          /\ OwnTrace'
          /\ (pc = "stop" => HeadResult'.status = OK)]_vars

\* A job after the first has completed normally and is about to be finalized
\* with status OK.
C11_Witness ==
    /\ pc = "finalize_job"
    /\ AllHooksOk
    /\ completed_jobs # <<>>
    /\ HeadResult.status = OK
    /\ IterationSignals = NormalTrace

\* The signal `sig` has been sent for the current job.
Sent(sig) == \E i \in 1..Len(trace) : trace[i].sig = sig

\* C12 as claimed (interrupt inside a job): a KeyboardInterrupt that leaves
\* _run_job, wherever in the job it was raised, finds ITERATION_END and
\* WORKLOAD_SPEC_END sent for the job and has the job finalized ABORTED; and a
\* job whose workload.run raised KeyboardInterrupt is finalized ABORTED.
C12_InterruptInsideJob ==
    /\ (pc \in {"job_except", "finalize_job"} /\ exc.kind = "KI") =>
          /\ Sent("ITERATION_END")
          /\ Sent("WORKLOAD_SPEC_END")
          /\ pc = "finalize_job" => HeadResult.status = ABORTED
    /\ \A k \in notes.interrupted :
          Len(iteration_results) >= k => iteration_results[k].status = ABORTED

\* The job that a DeviceNotRespondingError left with no recovery is FAILED,
\* context.aborted is true, every job finalized after it is SKIPPED, and none
\* is executed: Runner.run is in the drain or past it.
UnrecoveredDrained(k) ==
    /\ Len(iteration_results) >= k
    /\ iteration_results[k].status = FAILED
    /\ context.aborted
    /\ \A j \in (k + 1)..Len(iteration_results) : iteration_results[j].status = SKIPPED
    /\ pc \in {"drain_skip", "disconnect", "process", "done", "crashed"}
    /\ pc # "drain_skip" => job_queue = <<>>

HardBooted ==
    /\ bodies["HARD_RESET"] = "ok"
    /\ Len(trace) >= 2
    /\ trace[Len(trace) - 1].sig = "boot_hard"
    /\ trace[Len(trace)].sig = "connect"

\* C14 (recoverable device failure, S3): a DeviceNotRespondingError of a
\* job, that of workload.run among them, reaches the hard reset only when the
\* reboot policy can reboot; when device.boot(hard=True) and device.connect()
\* then succeed, no exception is left in flight, the job is finalized FAILED,
\* context.aborted stays false, and the loop goes on to start the next job of
\* the queue with _init_job and _run_job.
C14_RecoverableDevice ==
    [][/\ pc = "hard_boot" => config.reboot_policy.can_reboot /\ ~context.aborted
       /\ (pc = "hard_boot" /\ HardBooted') =>
             /\ pc' = "finalize_job"
             /\ exc' = NoExc
             /\ HeadResult'.status = FAILED
       /\ (pc = "finalize_job" /\ HardBooted /\ exc = NoExc) =>
             /\ pc' = "loop"
             /\ ~context'.aborted
             /\ Last(completed_jobs').result.status = FAILED
             /\ Last(iteration_results').status = FAILED
       /\ (pc = "loop" /\ HardBooted /\ job_queue # <<>>) =>
             /\ pc' = "run_job"
             /\ ~context'.aborted]_vars

\* A DeviceNotRespondingError came out of workload.run (no result update was
\* made, the teardown and the result submission were, and no ITERATION_END was
\* sent); the job was recovered by a hard reset and finalized, and the loop is
\* about to start the next job.
C14_Witness ==
    /\ pc = "loop"
    /\ HardBooted
    /\ job_queue # <<>>
    /\ Sent("run")
    /\ ~Sent("BEFORE_WORKLOAD_RESULT_UPDATE")
    /\ Sent("add_result")
    /\ ~Sent("ITERATION_END")
    /\ Last(iteration_results).status = FAILED
    /\ ~context.aborted

\* ------------------------------------------------------------ C15

\* The handler of the call `name` recorded an error of the current job: the
\* job's result.events holds the event string of that error.
Recorded(name) ==
    \E i \in 1..Len(HeadResult.events) : HeadResult.events[i] = name

\* C15 (as stated): a job in which workload.run raised an error that its
\* handler recorded, the device being responsive, is finalized FAILED with the
\* error's event string in result.events, and workload.teardown was invoked,
\* whatever the later steps of the job did.
C15_FailedRunStatus ==
    (pc = "finalize_job" /\ Recorded("run")) =>
        /\ HeadResult.status = FAILED
        /\ Sent("teardown")

\* C15 (amended): such a job comes to its finalization with the error's event
\* string in result.events and after workload.teardown was invoked; its status
\* is FAILED whenever the teardown's handler recorded no error and no
\* KeyboardInterrupt is in flight, and otherwise FAILED, NONCRITICAL or ABORTED.
C15_FailedRunStatusUnlessTeardown ==
    (pc = "finalize_job" /\ Recorded("run")) =>
        /\ Sent("teardown")
        /\ ~Sent("update_result")
        /\ HeadResult.status \in {FAILED, NONCRITICAL, ABORTED}
        /\ (~Recorded("teardown") /\ exc.kind # "KI") => HeadResult.status = FAILED
        /\ HeadResult.status = NONCRITICAL => Recorded("teardown")
        /\ HeadResult.status = ABORTED => exc.kind = "KI"

\* workload.run raised a handled error, the teardown and device.stop()
\* returned, and the job is about to be finalized FAILED.
C15_Witness ==
    /\ pc = "finalize_job"
    /\ Recorded("run")
    /\ ~Recorded("teardown")
    /\ Sent("teardown")
    /\ Sent("stop")
    /\ exc = NoExc
    /\ HeadResult.status = FAILED

\* ------------------------------------------------------ C16, C17, C18

\* The spec of every job of the queue, in queue order.
QueueIds == [i \in 1..Len(job_queue) |-> job_queue[i].spec]

\* The iteration round of the i-th job of the queue: it is the Round(i)-th job
\* of its spec.
Round(i) == Cardinality({j \in 1..i : job_queue[j].spec = job_queue[i].spec})

\* The place of a spec in the agenda.
InputIndex(s) ==
    CHOOSE i \in 1..Len(config.workload_specs) : config.workload_specs[i] = s

\* The place of a spec among the specs of its section.
IndexInSection(s) ==
    Cardinality({i \in 1..InputIndex(s) :
                    section_id(config.workload_specs[i]) = section_id(s)})

\* The place in the agenda of the first spec of the section of a spec.
SectionFirstSeen(s) ==
    CHOOSE i \in 1..Len(config.workload_specs) :
        /\ section_id(config.workload_specs[i]) = section_id(s)
        /\ \A j \in 1..(i - 1) : section_id(config.workload_specs[j]) # section_id(s)

\* Lexicographic order of two tuples of numbers of the same length.
RECURSIVE LexLess(_, _)
LexLess(a, b) ==
    /\ a # <<>>
    /\ \/ Head(a) < Head(b)
       \/ Head(a) = Head(b) /\ LexLess(Tail(a), Tail(b))

\* Round by round, the specs of a round in agenda order.
RoundThenInput(i) == <<Round(i), InputIndex(job_queue[i].spec)>>

\* Round by round, the specs of a round interleaved across the sections: the
\* first spec of every section, then the second of every section, ...
RoundThenInterleaved(i) ==
    <<Round(i), IndexInSection(job_queue[i].spec), SectionFirstSeen(job_queue[i].spec)>>

\* Spec by spec, in agenda order.
SpecThenRound(i) == <<InputIndex(job_queue[i].spec), Round(i)>>

\* The queue holds number_of_iterations jobs of every spec of the agenda, each
\* a fresh job with retry = 0, and no other job.
ExactJobs ==
    /\ \A i \in 1..Len(job_queue) :
          /\ job_queue[i].spec \in AgendaSpecs(config.workload_specs)
          /\ job_queue[i] = RunnerJob(job_queue[i].spec, 0)
    /\ \A s \in AgendaSpecs(config.workload_specs) :
          Cardinality({i \in 1..Len(job_queue) : job_queue[i].spec = s})
              = config.number_of_iterations[s]

\* init_queue of the runner class `cls` has built the queue.
Queued(cls) == pc = "queued" /\ GetRunner(config.execution_order) = cls

\* The agenda lists `specs`, with n iterations each.
AgendaIs(specs, n) ==
    /\ config.workload_specs = specs
    /\ \A s \in AgendaSpecs(specs) : config.number_of_iterations[s] = n

TwoSections == <<"X.A", "X.B", "Y.A", "Y.B">>

\* C16 (as stated): the by_section queue holds the jobs round by round, the
\* specs of a round interleaved across the sections; for sections X and Y with
\* specs A and B and 2 iterations it is X.A1, Y.A1, X.B1, Y.B1, X.A2, Y.A2,
\* X.B2, Y.B2.
C16_BySectionInterleaved ==
    Queued("BySectionRunner") =>
        /\ ExactJobs
        /\ \A i, j \in 1..Len(job_queue) :
              i < j => LexLess(RoundThenInterleaved(i), RoundThenInterleaved(j))
        /\ AgendaIs(TwoSections, 2) =>
              QueueIds = <<"X.A", "Y.A", "X.B", "Y.B", "X.A", "Y.A", "X.B", "Y.B">>

\* C16 (amended): the by_section queue holds the jobs round by round, the
\* specs of a round in agenda order, whatever their sections; for the agenda
\* X.A, X.B, Y.A, Y.B with 2 iterations it is X.A1, X.B1, Y.A1, Y.B1, X.A2,
\* X.B2, Y.A2, Y.B2.
C16_BySectionInputOrder ==
    Queued("BySectionRunner") =>
        /\ ExactJobs
        /\ \A i, j \in 1..Len(job_queue) :
              i < j => LexLess(RoundThenInput(i), RoundThenInput(j))
        /\ AgendaIs(TwoSections, 2) =>
              QueueIds = <<"X.A", "X.B", "Y.A", "Y.B", "X.A", "X.B", "Y.A", "Y.B">>

\* The by_section runner has built the queue of the agenda X.A, X.B, Y.A, Y.B
\* with 2 iterations each.
C16_Witness ==
    /\ Queued("BySectionRunner")
    /\ AgendaIs(TwoSections, 2)
    /\ Len(job_queue) = 8

\* The agenda A(2), B(1), C(2) of a single section.
OneSection ==
    /\ config.workload_specs = <<"X.A", "X.B", "X.C">>
    /\ config.number_of_iterations["X.A"] = 2
    /\ config.number_of_iterations["X.B"] = 1
    /\ config.number_of_iterations["X.C"] = 2

\* C17 (as stated): the by_iteration queue holds the jobs round by round, one
\* job in round k for each spec with at least k iterations, the specs of a
\* round in agenda order; for A(2), B(1), C(2) it is A1, B1, C1, A2, C2.
C17_ByIterationInputOrder ==
    Queued("ByIterationRunner") =>
        /\ ExactJobs
        /\ \A i, j \in 1..Len(job_queue) :
              i < j => LexLess(RoundThenInput(i), RoundThenInput(j))
        /\ OneSection => QueueIds = <<"X.A", "X.B", "X.C", "X.A", "X.C">>

\* C17 (amended): the by_iteration queue holds the jobs round by round, one
\* job in round k for each spec with at least k iterations, the specs of a
\* round interleaved across the sections (the first spec of every section,
\* then the second of every section, ...), which is the agenda order when the
\* agenda has one section; for A(2), B(1), C(2) it is A1, B1, C1, A2, C2.
C17_ByIterationInterleaved ==
    Queued("ByIterationRunner") =>
        /\ ExactJobs
        /\ \A i, j \in 1..Len(job_queue) :
              i < j => LexLess(RoundThenInterleaved(i), RoundThenInterleaved(j))
        /\ (\A s \in AgendaSpecs(config.workload_specs) :
                section_id(s) = section_id(config.workload_specs[1])) =>
              \A i, j \in 1..Len(job_queue) :
                  i < j => LexLess(RoundThenInput(i), RoundThenInput(j))
        /\ OneSection => QueueIds = <<"X.A", "X.B", "X.C", "X.A", "X.C">>

\* The by_iteration runner, picked for an execution order that is not set,
\* has built the queue of an agenda of two sections whose second round is
\* shorter than the first.
C17_Witness ==
    /\ Queued("ByIterationRunner")
    /\ config.execution_order = None
    /\ config.workload_specs = <<"X.A", "X.B", "Y.A">>
    /\ QueueIds = <<"X.A", "Y.A", "X.B", "X.A", "Y.A">>

\* C18: the by_spec queue holds, spec by spec in agenda order, the
\* number_of_iterations jobs of each spec, all with retry = 0 (A(2), B(1),
\* C(2) gives A1, A2, B1, C1, C2); the random queue holds the same jobs, none
\* added or lost, in some order.
C18_BySpecAndRandom ==
    /\ Queued("BySpecRunner") =>
          /\ ExactJobs
          /\ \A i, j \in 1..Len(job_queue) :
                i < j => LexLess(SpecThenRound(i), SpecThenRound(j))
          /\ OneSection => QueueIds = <<"X.A", "X.A", "X.B", "X.C", "X.C">>
    /\ Queued("RandomRunner") => ExactJobs

\* The random runner has built a queue of A(2), B(1), C(2) that is not in
\* by_spec order.
C18_Witness ==
    /\ Queued("RandomRunner")
    /\ OneSection
    /\ QueueIds = <<"X.C", "X.A", "X.B", "X.C", "X.A">>

\* ------------------------------------------------------------ C19

\* No workload hook was invoked for the current job.
NoHook == \A i \in 1..Len(trace) : trace[i].sig \notin WorkloadHooks

\* ITERATION_END and then WORKLOAD_SPEC_END were sent for the current job.
IterationThenSpecEnd ==
    \E i \in 1..(Len(trace) - 1) :
        trace[i].sig = "ITERATION_END" /\ trace[i + 1].sig = "WORKLOAD_SPEC_END"

\* The job that is about to be finalized is one whose runtime parameters
\* raised an error the handler recorded.
ParametersFailed == pc = "finalize_job" /\ Recorded("set_runtime_parameters")

\* spec.enabled is never set back to true, and a job of a disabled spec that
\* the loop starts is finalized SKIPPED with nothing done for it: no reboot,
\* no device start, no signal, no workload hook.
DisabledSpecSkipped ==
    /\ \A s \in Specs : ~enabled[s] => ~enabled'[s]
    /\ (pc = "run_job" /\ ~enabled[theSpec]) =>
          /\ pc' = "finalize_job"
          /\ trace = <<>> /\ trace' = <<>>
          /\ exc' = NoExc
          /\ HeadResult'.status = SKIPPED
    /\ (pc = "finalize_job" /\ HeadResult.status = SKIPPED) =>
          /\ Last(completed_jobs').result.status = SKIPPED
          /\ Last(iteration_results').status = SKIPPED

\* C19 (as stated): a job whose runtime parameters raise a handled error is
\* finalized FAILED, with no workload hook invoked, ITERATION_END and then
\* WORKLOAD_SPEC_END sent and the spec disabled; the spec stays disabled and
\* its later jobs that the loop starts are finalized SKIPPED with nothing done.
C19_SpecDisabling ==
    [][/\ ParametersFailed =>
            /\ Last(completed_jobs').result.status = FAILED
            /\ NoHook
            /\ IterationThenSpecEnd
            /\ ~enabled[theSpec]
       /\ DisabledSpecSkipped]_vars

\* C19 (amended): as stated, but the job whose runtime parameters failed is
\* finalized ABORTED when device.stop() raises KeyboardInterrupt (the
\* interrupt is in flight and device.stop() was the last call of the job), and
\* FAILED otherwise.
C19_SpecDisablingUnlessInterrupted ==
    [][/\ ParametersFailed =>
            /\ Last(completed_jobs').result.status =
                   IF exc.kind = "KI" /\ trace[Len(trace)].sig = "stop"
                   THEN ABORTED ELSE FAILED
            /\ NoHook
            /\ IterationThenSpecEnd
            /\ ~enabled[theSpec]
       /\ DisabledSpecSkipped]_vars

\* The runtime parameters of a job raised a handled error, device.stop()
\* returned, the job is about to be finalized FAILED with its spec disabled,
\* and another job of the same spec waits in the queue.
C19_Witness ==
    /\ ParametersFailed
    /\ exc = NoExc
    /\ HeadResult.status = FAILED
    /\ ~enabled[theSpec]
    /\ Len(job_queue) >= 2
    /\ job_queue[2].spec = theSpec

\* A job of a disabled spec, put back in the queue as a retry, was started by
\* the loop and is about to be finalized SKIPPED.
C19_SkippedRetry ==
    /\ pc = "finalize_job"
    /\ ~enabled[theSpec]
    /\ Head(job_queue).retry > 0
    /\ HeadResult.status = SKIPPED
    /\ trace = <<>>

\* ------------------------------------------------------------ C20

\* How many times `sig` was sent or called for the current job.
TimesSent(sig) == Cardinality({i \in 1..Len(trace) : trace[i].sig = sig})

\* C20: a job for which workload.setup was invoked comes to its finalization
\* with its result submitted to the result manager exactly once, however
\* setup, run, update_result and teardown ended; when setup raised, the spec
\* is disabled and neither run, update_result nor teardown was invoked.
C20_ResultSubmission ==
    (pc = "finalize_job" /\ Sent("setup")) =>
        /\ TimesSent("add_result") = 1
        /\ bodies["WORKLOAD_SETUP"] = "raised" =>
              /\ ~enabled[theSpec]
              /\ ~Sent("run") /\ ~Sent("update_result") /\ ~Sent("teardown")

\* ------------------------------------------------------------ C21

\* `sig` is in the trace the step leaves.
SentNext(sig) == \E i \in 1..Len(trace') : trace'[i].sig = sig

\* C21: in the result-update step, workload.update_result is invoked exactly
\* when the job has not FAILED; SUCCESSFUL_WORKLOAD_RESULT_UPDATE is sent
\* exactly when update_result was invoked and returned; an error of
\* update_result that the handler records makes the status PARTIAL; the
\* status becomes OK exactly when workload.run and update_result both
\* returned; AFTER_WORKLOAD_RESULT_UPDATE ends the step in every case.
C21_ResultUpdateStep ==
    [][pc = "update" =>
        LET invoked == SentNext("update_result")
            returned == invoked /\ bodies'["WORKLOAD_RESULT_UPDATE"] = "ok"
        IN  /\ ~Sent("update_result") /\ ~Sent("BEFORE_WORKLOAD_RESULT_UPDATE")
            /\ invoked <=> HeadResult.status # FAILED
            /\ SentNext("SUCCESSFUL_WORKLOAD_RESULT_UPDATE") <=> returned
            /\ (invoked /\ ~returned /\ exc' = NoExc) =>
                  /\ HeadResult'.status = PARTIAL
                  /\ Last(HeadResult'.events) = "update_result"
            /\ HeadResult'.status = OK <=>
                  (bodies["WORKLOAD_EXECUTION"] = "ok" /\ returned)
            /\ ~(bodies["WORKLOAD_EXECUTION"] = "ok" /\ returned) =>
                  HeadResult'.status \in {RUNNING, FAILED, PARTIAL}
            /\ SentNext("BEFORE_WORKLOAD_RESULT_UPDATE")
            /\ Last(trace').sig = "AFTER_WORKLOAD_RESULT_UPDATE"
            /\ pc' = "teardown"]_vars

\* workload.run returned, update_result raised an error its handler recorded,
\* and the job goes on to its teardown with status PARTIAL.
C21_Witness ==
    /\ pc = "teardown"
    /\ bodies["WORKLOAD_EXECUTION"] = "ok"
    /\ bodies["WORKLOAD_RESULT_UPDATE"] = "raised"
    /\ Sent("update_result")
    /\ ~Sent("SUCCESSFUL_WORKLOAD_RESULT_UPDATE")
    /\ Sent("AFTER_WORKLOAD_RESULT_UPDATE")
    /\ exc = NoExc
    /\ HeadResult.status = PARTIAL

\* ------------------------------------------------------------ C22

\* The job flashed or rebooted at most once, and did not do both.
AtMostOneOfFlashAndReboot ==
    TimesSent("BEFORE_FLASHING") + TimesSent("BEFORE_BOOT") <= 1

\* C22: _run_job skips a disabled job without flashing or rebooting; a job
\* whose spec has flash set flashes, or raises ConfigError when the policy
\* cannot reboot and DeviceError when the device cannot flash, and does not
\* reboot; any other job reboots exactly when it is not the first job of the
\* run and the policy reboots on each iteration, or on each spec and the spec
\* is not that of the job completed last; no job both flashes and reboots.
C22_RebootDecision ==
    [][/\ pc = "run_job" =>
            LET policy == config.reboot_policy
                flashes == pc' = "flash" /\ Last(trace').sig = "BEFORE_FLASHING"
                reboots == pc' = "boot" /\ Last(trace').sig = "BEFORE_BOOT"
                raises == pc' = "job_except" /\ trace' = trace
            IN  /\ trace = <<>>
                /\ ~enabled[theSpec] =>
                      /\ pc' = "finalize_job" /\ trace' = trace
                      /\ HeadResult'.status = SKIPPED
                /\ (enabled[theSpec] /\ theSpec \in config.flash) =>
                      /\ ~reboots
                      /\ ~policy.can_reboot =>
                            raises /\ exc' = Raise("WAError", "flash_not_permitted")
                      /\ policy.can_reboot =>
                            \/ flashes
                            \/ raises /\ exc' = Raise("DeviceError", "flash_not_supported")
                /\ (enabled[theSpec] /\ theSpec \notin config.flash) =>
                      /\ ~flashes
                      /\ reboots <=>
                            /\ completed_jobs # <<>>
                            /\ \/ policy.reboot_on_each_spec
                                  /\ theSpec # Last(completed_jobs).spec
                               \/ policy.reboot_on_each_iteration
                      /\ ~reboots => (pc' = "start" /\ trace' = trace)
       /\ (pc \in JobPcs /\ pc' \in JobPcs \cup {"finalize_job"}) =>
            AtMostOneOfFlashAndReboot']_vars

\* Under a policy that reboots on each spec only, a job whose spec is not
\* that of the job completed last has begun its reboot.
C22_Witness ==
    /\ pc = "boot"
    /\ config.reboot_policy.reboot_on_each_spec
    /\ ~config.reboot_policy.reboot_on_each_iteration
    /\ completed_jobs # <<>>
    /\ theSpec # Last(completed_jobs).spec
    /\ theSpec \notin config.flash
    /\ trace = <<[sig |-> "BEFORE_BOOT", spec |-> theSpec]>>

\* ------------------------------------------------------------ C23

\* The positions of Runner.run inside _reboot_device: before an attempt, and
\* before device.connect().
BootPcs == {"boot", "initial_boot"}

BootConnectPcs == {"boot_connect", "initial_boot_connect"}

\* The calls made inside the BOOT wrap of the trace: the places of the trace
\* between BEFORE_BOOT and AFTER_BOOT (or the end, while the wrap is open)
\* where `name` was called.
BootCalls(name) ==
    LET b == CHOOSE i \in 1..Len(trace) : trace[i].sig = "BEFORE_BOOT"
        a == IF Sent("AFTER_BOOT")
             THEN CHOOSE i \in 1..Len(trace) : trace[i].sig = "AFTER_BOOT"
             ELSE Len(trace) + 1
    IN  {i \in (b + 1)..(a - 1) : trace[i].sig = name}

\* What holds of one call of _reboot_device at every moment: one BEFORE_BOOT
\* and at most one AFTER_BOOT, at most MAX_REBOOT_ATTEMPTS calls of
\* device.boot, at most one call of device.connect, made right after the last
\* device.boot, and SUCCESSFUL_BOOT only after device.connect.
RebootBounded ==
    Sent("BEFORE_BOOT") =>
        /\ TimesSent("BEFORE_BOOT") = 1
        /\ TimesSent("AFTER_BOOT") <= 1
        /\ TimesSent("boot") = Cardinality(BootCalls("boot"))
        /\ Cardinality(BootCalls("boot")) <= MAX_REBOOT_ATTEMPTS
        /\ Cardinality(BootCalls("connect")) <= 1
        /\ \A c \in BootCalls("connect") :
              /\ c - 1 \in BootCalls("boot")
              /\ \A b \in BootCalls("boot") : b < c
        /\ Sent("SUCCESSFUL_BOOT") => BootCalls("connect") # {}
        /\ pc \in BootPcs \cup BootConnectPcs <=> ~Sent("AFTER_BOOT")

\* C23: one call of _reboot_device calls device.boot at most
\* MAX_REBOOT_ATTEMPTS times, goes on to device.connect, called once, after
\* the first attempt that returns, raises DeviceError without calling
\* device.connect when every attempt raised an error the handler recorded, and
\* sends BEFORE_BOOT and AFTER_BOOT once each.
C23_BoundedReboot ==
    [][/\ RebootBounded'
       /\ pc \in BootPcs =>
            LET handled == Len(HeadResult'.events) = Len(HeadResult.events) + 1 IN
            /\ Cardinality(BootCalls("boot")) = reboot_attempts
            /\ Cardinality(BootCalls("boot")') = reboot_attempts + 1
            /\ reboot_attempts < MAX_REBOOT_ATTEMPTS
            /\ (~handled /\ exc' = NoExc) <=> pc' \in BootConnectPcs
            /\ (handled /\ reboot_attempts + 1 < MAX_REBOOT_ATTEMPTS) =>
                  /\ pc' = pc /\ exc' = NoExc
                  /\ reboot_attempts' = reboot_attempts + 1
            /\ (handled /\ reboot_attempts + 1 = MAX_REBOOT_ATTEMPTS) =>
                  /\ exc' = Raise("DeviceError", "max_reboot_attempts")
                  /\ pc' \in {"job_except", "crashed"}
                  /\ BootCalls("connect")' = {}
                  /\ Last(trace').sig = "AFTER_BOOT" \/ Last(trace').sig = "AFTER_INITIAL_BOOT"
            /\ exc'.kind = "DeviceError" => (handled /\ reboot_attempts' = MAX_REBOOT_ATTEMPTS)
       /\ pc \in BootConnectPcs =>
            /\ BootCalls("connect") = {}
            /\ Cardinality(BootCalls("connect")') = 1
            /\ pc' \notin BootPcs \cup BootConnectPcs]_vars

\* The reboot of a job succeeded at its last attempt: device.boot was called
\* MAX_REBOOT_ATTEMPTS times and device.connect once, and the job goes on.
C23_Witness ==
    /\ pc = "start"
    /\ TimesSent("boot") = MAX_REBOOT_ATTEMPTS
    /\ TimesSent("connect") = 1
    /\ Sent("SUCCESSFUL_BOOT")
    /\ TimesSent("AFTER_BOOT") = 1

\* ------------------------------------------------------------ C24

\* The calls Runner.run makes under _handle_errors that C24 names.
HandledCalls == {"set_runtime_parameters", "setup", "run", "update_result", "teardown",
                 "disconnect"}

\* The positions of Runner.run before each of these calls.
HandledPcs == {"set_params", "setup", "run", "update", "teardown", "disconnect"}

\* An exception that has left Runner.run was not raised by one of the handled
\* calls, unless it is a KeyboardInterrupt or a DeviceNotRespondingError
\* (whose records do not name the call).
Scoped == pc = "crashed" => exc.from \notin HandledCalls

\* The job that is about to be finalized had an error of one of the handled
\* calls recorded by a handler.
HandledInJob ==
    pc = "finalize_job" /\ \E call \in HandledCalls : Recorded(call)

\* The step finalizes the job at the head of the queue, once.
FinalizedOnce ==
    /\ Len(completed_jobs') = Len(completed_jobs) + 1
    /\ Last(completed_jobs').spec = theSpec
    /\ Len(iteration_results') = Len(iteration_results) + 1
    /\ popped' = Len(completed_jobs')
    /\ Len(job_queue') <= Len(job_queue)
    /\ Len(job_queue') = Len(job_queue) =>
          Head(job_queue') = RunnerJob(theSpec, Head(job_queue).retry + 1)

\* Only KeyboardInterrupt and DeviceNotRespondingError are in flight after a
\* handled call.
OnlyInterruptEscapes == pc \in HandledPcs => exc'.kind \in {"none", "KI", "DNRE"}

\* C24 (as stated): an exception raised by a handled call that is neither a
\* KeyboardInterrupt nor a DeviceNotRespondingError never leaves Runner.run;
\* only those two leave _handle_errors; a job with a handled error is
\* finalized once and the loop goes on to the next job of the queue.
C24_ErrorHandlerScoping ==
    [][/\ Scoped'
       /\ OnlyInterruptEscapes
       /\ HandledInJob =>
            /\ FinalizedOnce
            /\ pc' = "loop"
            /\ ~context'.aborted]_vars

\* C24 (amended): as stated, but the loop goes on to the next job of the queue
\* only when no exception is in flight at the finalization; one is in flight
\* only when a KeyboardInterrupt or a DeviceNotRespondingError was raised later
\* in the same job.
C24_ErrorHandlerScopingUnlessRaisedLater ==
    [][/\ Scoped'
       /\ OnlyInterruptEscapes
       /\ HandledInJob =>
            /\ FinalizedOnce
            /\ exc = NoExc => (pc' = "loop" /\ ~context'.aborted)
            /\ exc # NoExc =>
                  /\ pc' # "loop"
                  /\ exc.kind \in {"KI", "DNRE"} \/ bodies["HARD_RESET"] = "raised"
                  /\ \E i \in 1..Len(trace) : trace[i].sig \in {"teardown", "stop"}]_vars

\* workload.run raised an error its handler recorded, the job was finalized
\* FAILED, and the loop is about to start the next job of the queue.
C24_Witness ==
    /\ pc = "loop"
    /\ job_queue # <<>>
    /\ Sent("run")
    /\ bodies["WORKLOAD_EXECUTION"] = "raised"
    /\ Sent("add_result")
    /\ Sent("ITERATION_END")
    /\ Last(completed_jobs).result.status = FAILED
    /\ exc = NoExc
    /\ ~context.aborted

\* ------------------------------------------------------------ C25

\* Runner.run has returned: the queue is empty and RUN_END was sent.
RunEnded == pc = "done" /\ job_queue = <<>> /\ Sent("RUN_END")

\* An exception has left Runner.run before the job loop was entered.
LeftAtStartUp == pc = "crashed" /\ completed_jobs = <<>>

PcOrder ==
    <<"run_start", "connect", "initial_boot", "initial_boot_connect", "initialize",
      "loop", "run_job", "flash", "boot", "boot_connect", "start", "set_params",
      "setup", "run", "update", "teardown", "stop", "job_except", "hard_boot",
      "finalize_job", "drain_abort", "drain_skip", "disconnect", "process", "done",
      "crashed">>

PcRank(p) == CHOOSE i \in 1..Len(PcOrder) : PcOrder[i] = p

\* The jobs still to be finalized, counting for each queued job the retries
\* it can still be given.
RECURSIVE JobsLeft(_)
JobsLeft(q) ==
    IF q = <<>> THEN 0
    ELSE (config.max_retries - Head(q).retry + 1) + JobsLeft(Tail(q))

\* A number that every step of Runner.run makes smaller: the jobs left; then
\* the places left in the control flow; then, inside _reboot_device, the
\* attempts left.
StepsLeft ==
    JobsLeft(job_queue) * 1000
    + (Len(PcOrder) - PcRank(pc)) * 10
    + (IF pc \in BootPcs THEN MAX_REBOOT_ATTEMPTS - reboot_attempts ELSE 0)

\* The places where Runner.run tests `while self.job_queue`: a round of the
\* loop follows when the queue is not empty, the next statement when it is.
LoopHeads == {"loop", "drain_abort", "drain_skip"}

AppendedOne(l0, l1, scope) ==
    /\ Len(l1) = Len(l0) + 1
    /\ SubSeq(l1, 1, Len(l0)) = l0
    /\ Last(l1).scope = scope

\* An add_artifact call that returned.
ArtifactAdded == Len(trace') = Len(trace) + 1 /\ exc' = NoExc

\* C26: add_artifact called while no job is current appends exactly one
\* artifact of scope RUN to run_artifacts and leaves iteration_artifacts as
\* they are; called while a job is current it appends exactly one artifact of
\* scope ITERATION to iteration_artifacts and leaves run_artifacts as they are.
C26_ArtifactRouting ==
    [][ArtifactAdded =>
          IF context.current_job = None
          THEN /\ AppendedOne(context.run_artifacts, context'.run_artifacts, RUN)
               /\ context'.iteration_artifacts = context.iteration_artifacts
          ELSE /\ AppendedOne(context.iteration_artifacts, context'.iteration_artifacts,
                              ITERATION)
               /\ context'.run_artifacts = context.run_artifacts]_vars

\* The list each call appends to, leaving the scope aside.
C26_RoutedList ==
    [][ArtifactAdded =>
          IF context.current_job = None
          THEN /\ Len(context'.run_artifacts) = Len(context.run_artifacts) + 1
               /\ context'.iteration_artifacts = context.iteration_artifacts
          ELSE /\ Len(context'.iteration_artifacts) = Len(context.iteration_artifacts) + 1
               /\ context'.run_artifacts = context.run_artifacts]_vars

\* The scope the code gives: ITERATION in run_artifacts, RUN in
\* iteration_artifacts.
C26_ScopesSwapped ==
    [][ArtifactAdded =>
          IF context.current_job = None
          THEN AppendedOne(context.run_artifacts, context'.run_artifacts, ITERATION)
          ELSE AppendedOne(context.iteration_artifacts, context'.iteration_artifacts, RUN)]_vars

\* ------------------------------------------------------------ C27

\* Every result in run_result.iteration_results, and the result of every
\* finalized job, has a terminal status.
TerminalResults ==
    /\ \A i \in 1..Len(iteration_results) : iteration_results[i].status \in TerminalStatuses
    /\ \A i \in 1..Len(completed_jobs) :
          /\ completed_jobs[i].result.status \in TerminalStatuses
          /\ completed_jobs[i].result = iteration_results[i]

\* The results appended so far stay as they are.
ResultsKept ==
    /\ Len(iteration_results') >= Len(iteration_results)
    /\ SubSeq(iteration_results', 1, Len(iteration_results)) = iteration_results
    /\ Len(completed_jobs') >= Len(completed_jobs)
    /\ SubSeq(completed_jobs', 1, Len(completed_jobs)) = completed_jobs

\* C27: every result appended to run_result.iteration_results has one of the
\* statuses OK, PARTIAL, NONCRITICAL, FAILED, ABORTED, SKIPPED when
\* _finalize_job appends it and keeps it ever after: no finalized job, be it
\* executed, retried, skipped or drained, is left RUNNING or not started.
C27_TerminalStatus == []TerminalResults /\ [][ResultsKept]_vars

\* A run that finalized an executed job, a retry and a drained job, and a run
\* that finalized the job of a disabled spec.
C27_Witness ==
    /\ pc = "done"
    /\ \E i, j, k \in 1..Len(completed_jobs) :
          /\ completed_jobs[i].retry = 0 /\ completed_jobs[i].result.status = FAILED
          /\ completed_jobs[j].retry > 0 /\ completed_jobs[j].result.status = OK
          /\ k = Len(completed_jobs) /\ completed_jobs[k].result.status = SKIPPED
          /\ i < j /\ j < k

\* ------------------------------------------------------------ C28

\* The iterations recorded on the finalized jobs of every spec are 1, 2, 3,
\* ... in completion order, and a retry is numbered one more than the job
\* it retries.
NumberedInOrder ==
    /\ \A spec \in Specs :
          LET jobs == SelectSeq(completed_jobs, LAMBDA j : j.spec = spec)
          IN  \A i \in 1..Len(jobs) : jobs[i].iteration = i
    /\ \A i \in 1..Len(completed_jobs) :
          completed_jobs[i].retry > 0 =>
              /\ i > 1
              /\ completed_jobs[i - 1].spec = completed_jobs[i].spec
              /\ completed_jobs[i].iteration = completed_jobs[i - 1].iteration + 1

\* No two finalized jobs have the same spec and iteration.
PairsDistinct ==
    \A i, j \in 1..Len(completed_jobs) :
        (completed_jobs[i].spec = completed_jobs[j].spec
            /\ completed_jobs[i].iteration = completed_jobs[j].iteration) => i = j

\* The step calls context.next_job: _init_job does, and every round of a
\* drain, which finalizes the job as well.
JobDrained ==
    pc \in {"drain_abort", "drain_skip"} /\ Len(completed_jobs') > Len(completed_jobs)

JobStarted == (pc = "loop" /\ pc' = "run_job") \/ JobDrained

\* The output directory next_job recorded on the job's result.
StartedDirectory ==
    IF JobDrained THEN Last(completed_jobs').result.output_directory
    ELSE Head(job_queue').result.output_directory

\* No label and no id of the naming holds the character the parts of a
\* directory name are joined with.
Unambiguous(naming) ==
    \A s \in Specs :
        /\ \A k \in 1..Len(naming[s].label) : naming[s].label[k] # "_"
        /\ \A k \in 1..Len(naming[s].id) : naming[s].id[k] # "_"

\* A job started while context.aborted is false gets the directory named
\* after its spec and its iteration.
OwnDirectory ==
    (JobStarted /\ ~context.aborted) =>
        StartedDirectory = <<theSpec, context'.job_iteration_counts[theSpec]>>

\* A job drained while context.aborted is true is given the run's root, and
\* context.output_directory is left there.
DrainedAtRoot ==
    (JobDrained /\ context.aborted) =>
        /\ StartedDirectory = <<"run">>
        /\ context.output_directory = <<"run">>
        /\ context'.output_directory = <<"run">>

\* C28: for every spec the iterations recorded on its jobs in completed_jobs
\* are 1, 2, 3, ... in completion order, retries and drained jobs counted (a
\* retry of iteration k is recorded as k + 1); no two finalized jobs have the
\* same spec and iteration; every job started while context.aborted is false
\* gets an output directory <label>_<id>_<iteration> that no other job has,
\* whatever the labels and ids of the specs; and a job drained while
\* context.aborted is true leaves context.output_directory at the run's root.
C28_IterationNumbering ==
    /\ [](NumberedInOrder /\ PairsDistinct)
    /\ [][OwnDirectory /\ DrainedAtRoot]_vars
    /\ [][(JobStarted /\ ~context.aborted) =>
             \A naming \in Namings : \A i \in 1..Len(completed_jobs) :
                 DirPath(naming, completed_jobs[i].result.output_directory)
                     # DirPath(naming, StartedDirectory)]_vars

\* C28 (amended): as C28, but the output directory of a job started while
\* context.aborted is false differs from that of every other job of its
\* spec, and from that of every job of another spec when no label and no id
\* holds a "_".
C28_IterationNumberingUnambiguous ==
    /\ [](NumberedInOrder /\ PairsDistinct)
    /\ [][OwnDirectory /\ DrainedAtRoot]_vars
    /\ [][(JobStarted /\ ~context.aborted) =>
             \A naming \in Namings : \A i \in 1..Len(completed_jobs) :
                 (completed_jobs[i].spec = theSpec \/ Unambiguous(naming)) =>
                     DirPath(naming, completed_jobs[i].result.output_directory)
                         # DirPath(naming, StartedDirectory)]_vars

\* A run that finalized a job, its retry as the spec's iteration 2 in a
\* directory of its own, a job of another spec, and drained a job at the
\* run's root after the run was aborted.
C28_Witness ==
    /\ context.aborted
    /\ \E i, j, k \in 1..Len(completed_jobs) :
          /\ j = i + 1 /\ j < k
          /\ completed_jobs[j].retry > 0
          /\ completed_jobs[j].iteration = 2
          /\ completed_jobs[j].result.output_directory = <<completed_jobs[j].spec, 2>>
          /\ completed_jobs[k].spec # completed_jobs[j].spec
          /\ completed_jobs[k].result.status = ABORTED
          /\ k = Len(completed_jobs)
          /\ completed_jobs[k].result.output_directory = <<"run">>

====
